---- MODULE Spec2Model ----
(***************************************************************************)
(* Swipe / match engine, report and unmatch cleanup, and the AI host       *)
(* session machine of the metll backend, as transition systems over the    *)
(* Postgres tables the controllers read and write.  Every `await prisma.*` *)
(* of a handler is one atomic step; steps of different requests (and of    *)
(* setTimeout callbacks) interleave freely.                                *)
(***************************************************************************)
EXTENDS Integers, FiniteSets, Sequences, Bags, TLC

VARIABLES
    swipes,        \* bag of Swipe rows [swiperId, swipedId, direction]
    reports,       \* bag of Report rows [reporterId, reportedId]
    matches,       \* set of Match rows [id, user1Id, user2Id]
    chatRooms,     \* set of ChatRoom rows [id, matchId]
    hostSessions,  \* set of ChatHostSession rows
    hostMessages,  \* bag of ChatHostMessage rows
    timers,        \* bag of setTimeout callbacks, armed or part-way through
    nextId,        \* the SERIAL sequences: table name -> next id
    now,           \* Date.now() in milliseconds
    req,           \* request slot -> the local state of the request in flight
    response       \* the HTTP response sent by the last step, if any

vars == <<swipes, reports, matches, chatRooms, hostSessions, hostMessages,
          timers, nextId, now, req, response>>

dbVars == <<swipes, reports, matches, chatRooms, hostSessions, hostMessages>>

----------------------------------------------------------------------------
(* Bounds of the model *)

\* requests in flight at the same time
MaxConc == 2
\* ids a SERIAL sequence hands out before the model stops creating rows
MaxId == 2
\* milliseconds the clock may advance
MaxClock == 1
\* setTimeout callbacks pending at the same time
MaxTimers == 2
\* ChatHostMessage rows
MaxMsgs == 11
\* times a host session is left
MaxExits == 1
\* ChatHostMessage rows beyond those of a play answered once per round
MaxExtra == 3

----------------------------------------------------------------------------
(* Inputs *)

Users == {1, 2, 3}
\* the users who send requests; user 3 only appears as a profile
Actors == {1, 2}
NoUser == 0
NoId == 0
Directions == {"like", "pass"}
DirInputs == Directions \cup {"superlike"}
Reqs == 1 .. MaxConc
Ids == 1 .. MaxId

Idle == [op |-> "idle"]
NoResponse == [op |-> "none"]

----------------------------------------------------------------------------
(* Table helpers *)

Min2(a, b) == IF a < b THEN a ELSE b
Max2(a, b) == IF a < b THEN b ELSE a

One(x) == SetToBag({x})

\* the bag b without the rows in dropped
BagWithout(b, dropped) == [e \in DOMAIN b \ dropped |-> b[e]]

SwipeRows(u, t) == {s \in BagToSet(swipes) : s.swiperId = u /\ s.swipedId = t}

\* number of Swipe rows of the ordered pair
SwipeCount(u, t) ==
    LET rows == SwipeRows(u, t)
        RECURSIVE Sum(_)
        Sum(S) == IF S = {} THEN 0
                  ELSE LET x == CHOOSE y \in S : TRUE
                       IN CopiesIn(x, swipes) + Sum(S \ {x})
    IN Sum(rows)

\* the direction of the row not looked at
LikeExists_AnyDirection(u, t) == SwipeRows(u, t) # {}

LikeExists(u, t) ==
    \E s \in BagToSet(swipes) :
        s.swiperId = u /\ s.swipedId = t /\ s.direction = "like"

MatchesOfPair(a, b) ==
    {m \in matches : \/ (m.user1Id = a /\ m.user2Id = b)
                     \/ (m.user1Id = b /\ m.user2Id = a)}

MatchById(id) == {m \in matches : m.id = id}
RoomOfMatch(mid) == {c \in chatRooms : c.matchId = mid}
SessionOfRoom(rid) == {h \in hostSessions : h.chatRoomId = rid}

\* the table without its unique index
SwipeUniqueViolation_NoIndex(u, t) == FALSE

\* CREATE UNIQUE INDEX "Swipe_swiperId_swipedId_key"
SwipeUniqueViolation(u, t) == SwipeRows(u, t) # {}

\* the table without its unique index
MatchUniqueViolation_NoIndex(u1, u2) == FALSE

\* CREATE UNIQUE INDEX "Match_user1Id_user2Id_key"
MatchUniqueViolation(u1, u2) ==
    \E m \in matches : m.user1Id = u1 /\ m.user2Id = u2

\* the table without its unique index
SessionUniqueViolation_NoIndex(rid) == FALSE

\* CREATE UNIQUE INDEX "ChatHostSession_chatRoomId_key"
SessionUniqueViolation(rid) == SessionOfRoom(rid) # {}

\* ON DELETE CASCADE: Match -> ChatRoom -> ChatHostSession -> ChatHostMessage
RoomsAfterDelete(mid) == {c \in chatRooms : c.matchId # mid}
SessionsAfterDelete(mid) ==
    {h \in hostSessions : \A c \in RoomOfMatch(mid) : h.chatRoomId # c.id}
MessagesAfterDelete(mid) ==
    LET gone == {h.id : h \in hostSessions \ SessionsAfterDelete(mid)}
    IN BagWithout(hostMessages, {x \in DOMAIN hostMessages : x.sessionId \in gone})

DeleteMatchCascade(mid) ==
    /\ matches' = {m \in matches : m.id # mid}
    /\ chatRooms' = RoomsAfterDelete(mid)
    /\ hostSessions' = SessionsAfterDelete(mid)
    /\ hostMessages' = MessagesAfterDelete(mid)

\* only the reporter's own swipes are deleted
SwipesWithoutPair_OneWay(a, b) ==
    BagWithout(swipes, SwipeRows(a, b))

\* swipe.deleteMany({OR: [{a -> b}, {b -> a}]})
SwipesWithoutPair(a, b) ==
    BagWithout(swipes, SwipeRows(a, b) \cup SwipeRows(b, a))

\* the request in slot r is the only one in flight
Alone(r) == \A r2 \in Reqs \ {r} : req[r2] = Idle

\* a request takes the first free slot (the slots are interchangeable)
Free(r) == req[r] = Idle /\ \A r2 \in Reqs : r2 < r => req[r2] # Idle

Respond(r, resp) ==
    /\ req' = [req EXCEPT ![r] = Idle]
    /\ response' = resp

Continue(r, rec) ==
    /\ req' = [req EXCEPT ![r] = rec]
    /\ response' = NoResponse

Bump(table) == nextId' = [nextId EXCEPT ![table] = @ + 1]

----------------------------------------------------------------------------
(* recordSwipe: POST /api/swipe *)

SwipeResp(q, status, isMatch, mid, rid) ==
    [op |-> "recordSwipe", userId |-> q.userId, targetUserId |-> q.targetUserId,
     direction |-> q.direction, status |-> status, isMatch |-> isMatch,
     matchId |-> mid, chatRoomId |-> rid]

\* the validation without the self-swipe check
SwipeInvalid_NoSelfCheck(u, t, d) == t = NoUser \/ d \notin Directions

\* the request is rejected before anything is read
SwipeInvalid(u, t, d) == t = NoUser \/ d \notin Directions \/ t = u

\* the duplicate check left out
AlreadySwiped_Never(u, t) == FALSE

\* swipe.findUnique(swiperId_swipedId) finds a row
AlreadySwiped(u, t) == SwipeRows(u, t) # {}

\* validation, then the duplicate check
RecordSwipe_Begin(r, u, t, d) ==
    /\ Free(r)
    /\ LET q == [op |-> "recordSwipe", pc |-> "createSwipe", userId |-> u,
                 targetUserId |-> t, direction |-> d, existingMatch |-> NoId]
       IN IF SwipeInvalid(u, t, d) \/ AlreadySwiped(u, t)
          THEN Respond(r, SwipeResp(q, 400, FALSE, NoId, NoId))
          ELSE Continue(r, q)
    /\ UNCHANGED <<dbVars, timers, nextId, now>>

\* swipe.create; a pass is answered at once
RecordSwipe_Create(r) ==
    LET q == req[r] IN
    /\ q.op = "recordSwipe" /\ q.pc = "createSwipe"
    /\ IF SwipeUniqueViolation(q.userId, q.targetUserId)
       THEN /\ Respond(r, SwipeResp(q, 500, FALSE, NoId, NoId))
            /\ UNCHANGED swipes
       ELSE /\ swipes' = swipes (+) One([swiperId |-> q.userId,
                                          swipedId |-> q.targetUserId,
                                          direction |-> q.direction])
            /\ IF q.direction = "pass"
               THEN Respond(r, SwipeResp(q, 200, FALSE, NoId, NoId))
               ELSE Continue(r, [q EXCEPT !.pc = "findMutual"])
    /\ UNCHANGED <<reports, matches, chatRooms, hostSessions, hostMessages,
                   timers, nextId, now>>

\* swipe.findFirst({swiperId: target, swipedId: user, direction: 'like'})
RecordSwipe_FindMutual(r) ==
    LET q == req[r] IN
    /\ q.op = "recordSwipe" /\ q.pc = "findMutual"
    /\ IF LikeExists(q.targetUserId, q.userId)
       THEN Continue(r, [q EXCEPT !.pc = "findMatch"])
       ELSE Respond(r, SwipeResp(q, 200, FALSE, NoId, NoId))
    /\ UNCHANGED <<dbVars, timers, nextId, now>>

\* the pair left in request order
CanonicalPair_Unsorted(u, t) == <<u, t>>

\* [user1Id, user2Id] = [userId, targetUserId].sort((a, b) => a - b)
CanonicalPair(u, t) == <<Min2(u, t), Max2(u, t)>>

\* match.findUnique(user1Id_user2Id)
RecordSwipe_FindMatch(r) ==
    LET q == req[r]
        p == CanonicalPair(q.userId, q.targetUserId)
        found == {m \in matches : m.user1Id = p[1] /\ m.user2Id = p[2]}
    IN
    /\ q.op = "recordSwipe" /\ q.pc = "findMatch"
    /\ IF found # {}
       THEN Continue(r, [q EXCEPT !.pc = "loadMatch",
                                  !.existingMatch = (CHOOSE m \in found : TRUE).id])
       ELSE Continue(r, [q EXCEPT !.pc = "createMatch"])
    /\ UNCHANGED <<dbVars, timers, nextId, now>>

\* the match exists already: match.findUnique(id) with its chatRoom
RecordSwipe_LoadMatch(r) ==
    LET q == req[r]
        rooms == RoomOfMatch(q.existingMatch)
        rid == IF MatchById(q.existingMatch) # {} /\ rooms # {}
               THEN (CHOOSE c \in rooms : TRUE).id ELSE NoId
    IN
    /\ q.op = "recordSwipe" /\ q.pc = "loadMatch"
    /\ Respond(r, SwipeResp(q, 200, TRUE, q.existingMatch, rid))
    /\ UNCHANGED <<dbVars, timers, nextId, now>>

\* the match created without its room
NewRoom_None(rid, mid) == {}

\* chatRoom: {create: {}}: the room of the new match, in the same statement
NewRoom(rid, mid) == {[id |-> rid, matchId |-> mid]}

\* match.create({user1Id, user2Id, chatRoom: {create: {}}})
RecordSwipe_CreateMatch(r) ==
    LET q == req[r]
        p == CanonicalPair(q.userId, q.targetUserId)
    IN
    /\ q.op = "recordSwipe" /\ q.pc = "createMatch"
    /\ IF MatchUniqueViolation(p[1], p[2])
       THEN /\ Respond(r, SwipeResp(q, 500, FALSE, NoId, NoId))
            /\ UNCHANGED <<matches, chatRooms, nextId>>
       ELSE /\ nextId["match"] <= MaxId
            /\ matches' = matches \cup
                   {[id |-> nextId["match"], user1Id |-> p[1], user2Id |-> p[2]]}
            /\ chatRooms' = chatRooms \cup NewRoom(nextId["room"], nextId["match"])
            /\ nextId' = [nextId EXCEPT !["match"] = @ + 1, !["room"] = @ + 1]
            /\ Respond(r, SwipeResp(q, 200, TRUE, nextId["match"], nextId["room"]))
    /\ UNCHANGED <<swipes, reports, hostSessions, hostMessages, timers, now>>

RecordSwipe(r) ==
    \/ \E u \in Actors, t \in Users \cup {NoUser}, d \in DirInputs :
           RecordSwipe_Begin(r, u, t, d)
    \/ RecordSwipe_Create(r)
    \/ RecordSwipe_FindMutual(r)
    \/ RecordSwipe_FindMatch(r)
    \/ RecordSwipe_LoadMatch(r)
    \/ RecordSwipe_CreateMatch(r)

\* the query for the mutual like throws (the database is unreachable): the
\* catch block answers 500; the Swipe row written before it stays
RecordSwipe_FindMutualFails(r) ==
    LET q == req[r] IN
    /\ q.op = "recordSwipe" /\ q.pc = "findMutual"
    /\ Respond(r, SwipeResp(q, 500, FALSE, NoId, NoId))
    /\ UNCHANGED <<dbVars, timers, nextId, now>>

----------------------------------------------------------------------------
(* resetSwipes: DELETE /api/swipe/reset *)

\* the rows that target the user are deleted too
SwipesAfterReset_BothWays(u) ==
    BagWithout(swipes, {s \in DOMAIN swipes : s.swiperId = u \/ s.swipedId = u})

\* swipe.deleteMany({swiperId: userId})
SwipesAfterReset(u) ==
    BagWithout(swipes, {s \in DOMAIN swipes : s.swiperId = u})

ResetSwipes(r, u) ==
    /\ Free(r)
    /\ swipes' = SwipesAfterReset(u)
    /\ Respond(r, [op |-> "resetSwipes", userId |-> u, status |-> 200,
                   deletedCount |-> BagCardinality(swipes)
                                    - BagCardinality(SwipesAfterReset(u))])
    /\ UNCHANGED <<reports, matches, chatRooms, hostSessions, hostMessages,
                   timers, nextId, now>>

----------------------------------------------------------------------------
(* unmatchUser: DELETE /api/swipe/matches/:matchId *)

UnmatchResp(q, status) ==
    [op |-> "unmatchUser", userId |-> q.userId, matchId |-> q.matchId,
     status |-> status]

\* the ownership check left out
UnmatchUser_Begin_NoOwnership(r, u, mid) ==
    /\ Free(r)
    /\ LET found == MatchById(mid)
           m == CHOOSE x \in found : TRUE
           q == [op |-> "unmatchUser", pc |-> "deleteMedia", userId |-> u,
                 matchId |-> mid, user1Id |-> NoUser, user2Id |-> NoUser,
                 media |-> "none"]
       IN IF found = {}
          THEN Respond(r, UnmatchResp(q, 404))
          ELSE Continue(r, [q EXCEPT !.user1Id = m.user1Id, !.user2Id = m.user2Id])
    /\ UNCHANGED <<dbVars, timers, nextId, now>>

\* match.findUnique(id), then the ownership check
UnmatchUser_Begin(r, u, mid) ==
    /\ Free(r)
    /\ LET found == MatchById(mid)
           m == CHOOSE x \in found : TRUE
           q == [op |-> "unmatchUser", pc |-> "deleteMedia", userId |-> u,
                 matchId |-> mid, user1Id |-> NoUser, user2Id |-> NoUser,
                 media |-> "none"]
       IN IF found = {}
          THEN Respond(r, UnmatchResp(q, 404))
          ELSE IF m.user1Id # u /\ m.user2Id # u
          THEN Respond(r, UnmatchResp(q, 403))
          ELSE Continue(r, [q EXCEPT !.user1Id = m.user1Id, !.user2Id = m.user2Id])
    /\ UNCHANGED <<dbVars, timers, nextId, now>>

\* what deleteResourcesFromCloudinary met: no media in the room, the objects
\* deleted, or an error of the object store (caught and logged)
MediaOutcomes == {"none", "deleted", "failed"}

\* an error of the object store that reaches the handler
UnmatchUser_DeleteMedia_Throwing(r) ==
    LET q == req[r] IN
    /\ q.op = "unmatchUser" /\ q.pc = "deleteMedia"
    /\ \E outcome \in MediaOutcomes :
           IF outcome = "failed"
           THEN Respond(r, UnmatchResp(q, 500))
           ELSE Continue(r, [q EXCEPT !.pc = "deleteMatch", !.media = outcome])
    /\ UNCHANGED <<dbVars, timers, nextId, now>>

\* the media of the room's messages are deleted from the object store
UnmatchUser_DeleteMedia(r) ==
    LET q == req[r] IN
    /\ q.op = "unmatchUser" /\ q.pc = "deleteMedia"
    /\ \E outcome \in MediaOutcomes :
           Continue(r, [q EXCEPT !.pc = "deleteMatch", !.media = outcome])
    /\ UNCHANGED <<dbVars, timers, nextId, now>>

\* match.delete(id): throws when the row is gone
UnmatchUser_DeleteMatch(r) ==
    LET q == req[r] IN
    /\ q.op = "unmatchUser" /\ q.pc = "deleteMatch"
    /\ IF MatchById(q.matchId) = {}
       THEN /\ Respond(r, UnmatchResp(q, 500))
            /\ UNCHANGED <<matches, chatRooms, hostSessions, hostMessages>>
       ELSE /\ DeleteMatchCascade(q.matchId)
            /\ Continue(r, [q EXCEPT !.pc = "deleteSwipes"])
    /\ UNCHANGED <<swipes, reports, timers, nextId, now>>

\* swipe.deleteMany, both directions
UnmatchUser_DeleteSwipes(r) ==
    LET q == req[r] IN
    /\ q.op = "unmatchUser" /\ q.pc = "deleteSwipes"
    /\ swipes' = SwipesWithoutPair(q.user1Id, q.user2Id)
    /\ Respond(r, UnmatchResp(q, 200))
    /\ UNCHANGED <<reports, matches, chatRooms, hostSessions, hostMessages,
                   timers, nextId, now>>

\* swipe.deleteMany throws: the handler answers 500
UnmatchUser_DeleteSwipesFails(r) ==
    LET q == req[r] IN
    /\ q.op = "unmatchUser" /\ q.pc = "deleteSwipes"
    /\ Respond(r, UnmatchResp(q, 500))
    /\ UNCHANGED <<dbVars, timers, nextId, now>>

UnmatchUser(r) ==
    \/ \E u \in Actors, mid \in Ids : UnmatchUser_Begin(r, u, mid)
    \/ UnmatchUser_DeleteMedia(r)
    \/ UnmatchUser_DeleteMatch(r)
    \/ UnmatchUser_DeleteSwipes(r)

----------------------------------------------------------------------------
(* submitReport: POST /api/report *)

ReportResp(q, status) ==
    [op |-> "submitReport", userId |-> q.userId, targetId |-> q.targetId,
     status |-> status]

ReportRows(u, t) ==
    {x \in BagToSet(reports) : x.reporterId = u /\ x.reportedId = t}

\* the reported user is the OTHER user of the match; a match of two other
\* users leaves reportedUserId as it was
ResolveTarget(u, reportedUserId, mid) ==
    LET found == MatchById(mid)
        m == CHOOSE x \in found : TRUE
    IN IF mid = NoId \/ found = {} THEN reportedUserId
       ELSE IF m.user1Id = u THEN m.user2Id
       ELSE IF m.user2Id = u THEN m.user1Id
       ELSE reportedUserId

\* validation; with a matchId, match.findUnique(id) resolves the target
SubmitReport_Begin(r, u, reportedUserId, mid) ==
    /\ Free(r)
    /\ LET t == ResolveTarget(u, reportedUserId, mid)
           q == [op |-> "submitReport", pc |-> "findReport", userId |-> u,
                 targetId |-> t, existingReport |-> FALSE,
                 matchesToDelete |-> {}, todo |-> {}, media |-> "none"]
       IN IF reportedUserId = NoUser /\ mid = NoId
          THEN Respond(r, ReportResp(q, 400))
          ELSE IF mid # NoId /\ MatchById(mid) = {} /\ t = NoUser
          THEN Respond(r, ReportResp(q, 404))
          ELSE IF t = NoUser
          THEN Respond(r, ReportResp(q, 400))
          ELSE Continue(r, q)
    /\ UNCHANGED <<dbVars, timers, nextId, now>>

\* a report is created whether or not one exists
SubmitReport_FindReport_NoCheck(r) ==
    LET q == req[r] IN
    /\ q.op = "submitReport" /\ q.pc = "findReport"
    /\ Continue(r, [q EXCEPT !.pc = "createReport"])
    /\ UNCHANGED <<dbVars, timers, nextId, now>>

\* report.findFirst({reporterId, reportedId})
SubmitReport_FindReport(r) ==
    LET q == req[r] IN
    /\ q.op = "submitReport" /\ q.pc = "findReport"
    /\ IF ReportRows(q.userId, q.targetId) # {}
       THEN Continue(r, [q EXCEPT !.pc = "findMatches", !.existingReport = TRUE])
       ELSE Continue(r, [q EXCEPT !.pc = "createReport"])
    /\ UNCHANGED <<dbVars, timers, nextId, now>>

\* report.create: the table has no unique index on the pair
SubmitReport_CreateReport(r) ==
    LET q == req[r] IN
    /\ q.op = "submitReport" /\ q.pc = "createReport"
    /\ reports' = reports (+) One([reporterId |-> q.userId,
                                    reportedId |-> q.targetId])
    /\ Continue(r, [q EXCEPT !.pc = "findMatches"])
    /\ UNCHANGED <<swipes, matches, chatRooms, hostSessions, hostMessages,
                   timers, nextId, now>>

\* match.findMany({OR: [{user1Id, user2Id}, {user2Id, user1Id}]})
SubmitReport_FindMatches(r) ==
    LET q == req[r]
        ids == {m.id : m \in MatchesOfPair(q.userId, q.targetId)}
    IN
    /\ q.op = "submitReport" /\ q.pc = "findMatches"
    /\ Continue(r, [q EXCEPT !.matchesToDelete = ids, !.todo = ids,
                             !.pc = IF ids = {} THEN "deleteSwipes"
                                    ELSE "deleteMedia"])
    /\ UNCHANGED <<dbVars, timers, nextId, now>>

\* the media of the next match's room are deleted from the object store
SubmitReport_DeleteMedia(r) ==
    LET q == req[r] IN
    /\ q.op = "submitReport" /\ q.pc = "deleteMedia"
    /\ \E outcome \in MediaOutcomes :
           Continue(r, [q EXCEPT !.pc = "deleteMatch", !.media = outcome])
    /\ UNCHANGED <<dbVars, timers, nextId, now>>

\* for (const match of matchesToDelete) match.delete(id)
SubmitReport_DeleteMatch(r) ==
    LET q == req[r] IN
    /\ q.op = "submitReport" /\ q.pc = "deleteMatch"
    /\ \E mid \in q.todo :
        IF MatchById(mid) = {}
        THEN /\ Respond(r, ReportResp(q, 500))
             /\ UNCHANGED <<matches, chatRooms, hostSessions, hostMessages>>
        ELSE /\ DeleteMatchCascade(mid)
             /\ Continue(r, [q EXCEPT !.todo = @ \ {mid},
                                      !.pc = IF q.todo = {mid}
                                             THEN "deleteSwipes"
                                             ELSE "deleteMedia"])
    /\ UNCHANGED <<swipes, reports, timers, nextId, now>>

\* swipe.deleteMany, both directions
SubmitReport_DeleteSwipes(r) ==
    LET q == req[r] IN
    /\ q.op = "submitReport" /\ q.pc = "deleteSwipes"
    /\ swipes' = SwipesWithoutPair(q.userId, q.targetId)
    /\ Respond(r, ReportResp(q, 200))
    /\ UNCHANGED <<reports, matches, chatRooms, hostSessions, hostMessages,
                   timers, nextId, now>>

\* swipe.deleteMany throws: the handler answers 500
SubmitReport_DeleteSwipesFails(r) ==
    LET q == req[r] IN
    /\ q.op = "submitReport" /\ q.pc = "deleteSwipes"
    /\ Respond(r, ReportResp(q, 500))
    /\ UNCHANGED <<dbVars, timers, nextId, now>>

SubmitReport(r) ==
    \/ \E u \in Actors : \E t \in (Actors \ {u}) \cup {NoUser}, mid \in Ids \cup {NoId} :
           SubmitReport_Begin(r, u, t, mid)
    \/ SubmitReport_FindReport(r)
    \/ SubmitReport_CreateReport(r)
    \/ SubmitReport_FindMatches(r)
    \/ SubmitReport_DeleteMedia(r)
    \/ SubmitReport_DeleteMatch(r)
    \/ SubmitReport_DeleteSwipes(r)

----------------------------------------------------------------------------
(* getSwipeProfiles: GET /api/swipe/profiles *)

\* take: 20
PageSize == 20

\* swipe.findMany({swiperId: userId}).map(s => s.swipedId)
SwipedIds(u) == {s.swipedId : s \in {x \in BagToSet(swipes) : x.swiperId = u}}

\* reports.map(r => r.reporterId === userId ? r.reportedId : r.reporterId)
BlockedUserIds(u) ==
    {IF x.reporterId = u THEN x.reportedId ELSE x.reporterId :
        x \in {y \in BagToSet(reports) : y.reporterId = u \/ y.reportedId = u}}

\* user.findMany({id: {notIn: excludeIds}, take: 20}): any 20 of them
Pages(u, swiped, blocked) ==
    LET rest == Users \ ({u} \cup swiped \cup blocked)
    IN IF Cardinality(rest) <= PageSize THEN {rest}
       ELSE {p \in SUBSET rest : Cardinality(p) = PageSize}

GetSwipeProfiles_Begin(r, u) ==
    /\ Free(r)
    /\ Continue(r, [op |-> "getSwipeProfiles", pc |-> "findReports",
                    userId |-> u, swipedIds |-> SwipedIds(u)])
    /\ UNCHANGED <<dbVars, timers, nextId, now>>

GetSwipeProfiles_Finish(r) ==
    LET q == req[r] IN
    /\ q.op = "getSwipeProfiles" /\ q.pc = "findReports"
    /\ \E page \in Pages(q.userId, q.swipedIds, BlockedUserIds(q.userId)) :
        Respond(r, [op |-> "getSwipeProfiles", userId |-> q.userId,
                    status |-> 200, profiles |-> page])
    /\ UNCHANGED <<dbVars, timers, nextId, now>>

GetSwipeProfiles(r) ==
    \/ \E u \in Actors : GetSwipeProfiles_Begin(r, u)
    \/ GetSwipeProfiles_Finish(r)

----------------------------------------------------------------------------
(* The AI host: session rows *)

NullData == [isNull |-> TRUE, gameRounds |-> 0, answers |-> <<>>]

\* chatHostSession.create({chatRoomId, matchId, status: 'pending',
\* currentStage: 'STAGE_0'}) with the column defaults of the migration
NewSession(id, rid, mid) ==
    [id |-> id, chatRoomId |-> rid, matchId |-> mid, status |-> "pending",
     currentStage |-> "STAGE_0", user1OptIn |-> FALSE, user2OptIn |-> FALSE,
     stageData |-> NullData]

HostResp(op, u, mid, status) ==
    [op |-> op, userId |-> u, matchId |-> mid, status |-> status]

\* what match.findUnique(id) with chatRoom and hostSession returns
SessionOfMatch(mid) ==
    {h \in hostSessions : \E c \in RoomOfMatch(mid) : h.chatRoomId = c.id}

IsParticipant(u, mid) ==
    \E m \in MatchById(mid) : m.user1Id = u \/ m.user2Id = u

IsUser1(u, mid) == \E m \in MatchById(mid) : m.user1Id = u

\* chatHostSession.create: the unique index on chatRoomId or the foreign key
\* to ChatRoom may refuse the row
CreateSessionFails(rid) ==
    SessionUniqueViolation(rid) \/ ~\E c \in chatRooms : c.id = rid

(* getHostSession: GET /api/host/:matchId *)

GetHostSession_Begin(r, u, mid) ==
    /\ Free(r)
    /\ LET rooms == RoomOfMatch(mid) IN
       IF MatchById(mid) = {}
       THEN Respond(r, HostResp("getHostSession", u, mid, 404))
       ELSE IF ~IsParticipant(u, mid)
       THEN Respond(r, HostResp("getHostSession", u, mid, 403))
       ELSE IF rooms = {}
       THEN Respond(r, HostResp("getHostSession", u, mid, 400))
       ELSE IF SessionOfMatch(mid) # {}
       THEN Respond(r, HostResp("getHostSession", u, mid, 200))
       ELSE Continue(r, [op |-> "getHostSession", pc |-> "createSession",
                         userId |-> u, matchId |-> mid,
                         chatRoomId |-> (CHOOSE c \in rooms : TRUE).id])
    /\ UNCHANGED <<dbVars, timers, nextId, now>>

GetHostSession_Create(r) ==
    LET q == req[r] IN
    /\ q.op = "getHostSession" /\ q.pc = "createSession"
    /\ IF CreateSessionFails(q.chatRoomId)
       THEN /\ Respond(r, HostResp("getHostSession", q.userId, q.matchId, 500))
            /\ UNCHANGED <<hostSessions, nextId>>
       ELSE /\ hostSessions' = hostSessions \cup
                   {NewSession(nextId["session"], q.chatRoomId, q.matchId)}
            /\ Bump("session")
            /\ Respond(r, HostResp("getHostSession", q.userId, q.matchId, 200))
    /\ UNCHANGED <<swipes, reports, matches, chatRooms, hostMessages, timers, now>>

GetHostSession(r) ==
    \/ \E u \in Actors, mid \in Ids : GetHostSession_Begin(r, u, mid)
    \/ GetHostSession_Create(r)

----------------------------------------------------------------------------
(* The AI host: rows of ChatHostMessage and updates of a session row *)

SessionById(sid) == {h \in hostSessions : h.id = sid}

\* chatHostSession.update({where: {id}}) throws when the row is gone
UpdateFails(sid) == SessionById(sid) = {}

\* chatHostSession.update({where: {id}, data}): the other rows are untouched
SessionsAfterUpdate(sid, new) ==
    {IF h.id = sid THEN new ELSE h : h \in hostSessions}

\* the row with the id (the primary key)
TheSession(sid) == CHOOSE h \in hostSessions : h.id = sid

\* a row written by the host; the stage and the kind are its metadata
HostMsg(sid, mtype, stage, tag) ==
    [sessionId |-> sid, senderType |-> "host", messageType |-> mtype,
     stage |-> stage, tag |-> tag]

\* a row written for a participant's answer (metadata null)
UserMsg(sid, sender) ==
    [sessionId |-> sid, senderType |-> sender, messageType |-> "text",
     stage |-> "none", tag |-> "answer"]

\* chatHostMessage.create: the foreign key to ChatHostSession may refuse it
CreateMessageFails(sid) == SessionById(sid) = {}

\* the table holding the new row only
LogWith_Replacing(row) == One(row)

\* chatHostMessage.create({data}): the table with one more row
LogWith(row) == hostMessages (+) One(row)

\* metadata.gameType of the prompt that opens a stage
OpeningPrompt(stage) ==
    CASE stage = "STAGE_1" -> "ice_breaker"
      [] stage = "STAGE_2" -> "this_or_that"
      [] stage = "STAGE_3" -> "emoji_story"
      [] stage = "STAGE_4" -> "quick_fire"
      [] stage = "STAGE_4B" -> "would_you_rather"
      [] stage = "STAGE_4C" -> "rate_scale"
      [] stage = "STAGE_4D" -> "two_truths"
      [] OTHER -> "none"

\* the row that opens a stage: the ice-breaker and the two-truths prompt are
\* of type question, the games of type game_prompt, the handoff is a text
MoveRow(sid, stage) ==
    IF stage = "STAGE_5" THEN HostMsg(sid, "text", "STAGE_5", "handoff")
    ELSE HostMsg(sid, IF stage \in {"STAGE_1", "STAGE_4D"} THEN "question"
                      ELSE "game_prompt", stage, OpeningPrompt(stage))

\* the text that closes a round: the follow-up comment of STAGE_2, the reveal
\* of STAGE_3, the reactions of STAGE_4B and STAGE_4C; STAGE_4 has none
ClosingRow(sid, stage) ==
    HostMsg(sid, "text", stage,
            CASE stage = "STAGE_2" -> "comment"
              [] stage = "STAGE_3" -> "reveal"
              [] stage = "STAGE_4B" -> "matched"
              [] stage = "STAGE_4C" -> "rating"
              [] OTHER -> "none")

\* the rounds of a play in order, as <<stage, gameRounds>>
Rounds ==
    << <<"STAGE_1", 0>>, <<"STAGE_2", 0>>, <<"STAGE_2", 1>>, <<"STAGE_2", 2>>,
       <<"STAGE_3", 0>>, <<"STAGE_4", 0>>, <<"STAGE_4", 1>>, <<"STAGE_4", 2>>,
       <<"STAGE_4B", 0>>, <<"STAGE_4C", 0>>, <<"STAGE_4D", 0>>,
       <<"STAGE_5", 0>> >>

\* the log when round i opens in a play in which each participant has
\* answered every round once: per round the two answers, their two
\* reactions, the closing text and the prompt of the next round
RECURSIVE CleanLog(_, _)
CleanLog(sid, i) ==
    IF i = 1 THEN One(MoveRow(sid, "STAGE_1"))
    ELSE LET stage == Rounds[i - 1][1]
             closing == ClosingRow(sid, stage)
         IN CleanLog(sid, i - 1)
            (+) One(UserMsg(sid, "user1")) (+) One(UserMsg(sid, "user2"))
            (+) (HostMsg(sid, "text", stage, "reaction") :> 2)
            (+) (IF closing.tag = "none" THEN EmptyBag ELSE One(closing))
            (+) One(IF Rounds[i][2] = 0 THEN MoveRow(sid, Rounds[i][1])
                    ELSE HostMsg(sid, "game_prompt", Rounds[i][1],
                                 "next_question"))

\* the first round from round i on whose opening log is not yet part of the
\* log (the last one when all are)
RECURSIVE NextOpening(_, _)
NextOpening(sid, i) ==
    IF i < Len(Rounds) /\ CleanLog(sid, i) \sqsubseteq hostMessages
    THEN NextOpening(sid, i + 1)
    ELSE i

\* the rows of the log beyond those of the bag clean
Excess(clean) ==
    LET RECURSIVE Sum(_)
        Sum(S) == IF S = {} THEN 0
                  ELSE LET x == CHOOSE y \in S : TRUE
                       IN Max2(0, hostMessages[x] - CopiesIn(x, clean))
                          + Sum(S \ {x})
    IN Sum(DOMAIN hostMessages)

\* the model stops appending once the log holds MaxMsgs rows; from the
\* second round of STAGE_2 on, once it holds more than MaxExtra rows beyond
\* those of a play in which every round is answered once by each
LogHasRoom ==
    IF BagCardinality(hostMessages) < MaxMsgs THEN TRUE
    ELSE \E h \in hostSessions :
             /\ CleanLog(h.id, 3) \sqsubseteq hostMessages
             /\ Excess(CleanLog(h.id, NextOpening(h.id, 4))) <= MaxExtra

----------------------------------------------------------------------------
(* optInToHost: POST /api/host/:matchId/opt-in, with startHostSession *)

\* re-entry handled like a first opt-in
OptInUpdate_NoReset(h, readStatus, isUser1) ==
    IF isUser1 THEN [h EXCEPT !.user1OptIn = TRUE]
    ELSE [h EXCEPT !.user2OptIn = TRUE]

\* updateData, chosen from the status the handler read
OptInUpdate(h, readStatus, isUser1) ==
    LET base == IF readStatus = "exited"
                THEN [h EXCEPT !.status = "pending",
                               !.currentStage = "STAGE_0",
                               !.user1OptIn = FALSE,
                               !.user2OptIn = FALSE,
                               !.stageData = NullData]
                ELSE h
    IN IF isUser1 THEN [base EXCEPT !.user1OptIn = TRUE]
       ELSE [base EXCEPT !.user2OptIn = TRUE]

\* the status left out of the check
BothOptedIn_FlagsOnly(h) == h.user1OptIn /\ h.user2OptIn

\* the check that guards startHostSession
BothOptedIn(h) == h.user1OptIn /\ h.user2OptIn /\ h.status = "pending"

OptInToHost_Begin(r, u, mid) ==
    /\ Free(r)
    /\ LET rooms == RoomOfMatch(mid)
           found == SessionOfMatch(mid)
           q == [op |-> "optIn", pc |-> "createSession", userId |-> u,
                 matchId |-> mid, isUser1 |-> IsUser1(u, mid),
                 chatRoomId |-> NoId, sessionId |-> NoId,
                 readStatus |-> "pending"]
       IN
       IF ~IsParticipant(u, mid)
       THEN Respond(r, HostResp("optIn", u, mid, 403))
       ELSE IF rooms = {}
       THEN Respond(r, HostResp("optIn", u, mid, 400))
       ELSE LET c == CHOOSE x \in rooms : TRUE IN
            IF found = {}
            THEN Continue(r, [q EXCEPT !.chatRoomId = c.id])
            ELSE LET h == CHOOSE x \in found : TRUE IN
                 Continue(r, [q EXCEPT !.pc = "update", !.chatRoomId = c.id,
                                       !.sessionId = h.id,
                                       !.readStatus = h.status])
    /\ UNCHANGED <<dbVars, timers, nextId, now>>

OptInToHost_Create(r) ==
    LET q == req[r] IN
    /\ q.op = "optIn" /\ q.pc = "createSession"
    /\ IF CreateSessionFails(q.chatRoomId)
       THEN /\ Respond(r, HostResp("optIn", q.userId, q.matchId, 500))
            /\ UNCHANGED <<hostSessions, nextId>>
       ELSE /\ nextId["session"] <= MaxId
            /\ hostSessions' = hostSessions \cup
                   {NewSession(nextId["session"], q.chatRoomId, q.matchId)}
            /\ Bump("session")
            /\ Continue(r, [q EXCEPT !.pc = "update",
                                     !.sessionId = nextId["session"]])
    /\ UNCHANGED <<swipes, reports, matches, chatRooms, hostMessages, timers, now>>

OptInToHost_Update(r) ==
    LET q == req[r]
        updated == OptInUpdate(TheSession(q.sessionId), q.readStatus, q.isUser1)
    IN
    /\ q.op = "optIn" /\ q.pc = "update"
    /\ IF UpdateFails(q.sessionId)
       THEN /\ Respond(r, HostResp("optIn", q.userId, q.matchId, 500))
            /\ UNCHANGED hostSessions
       ELSE /\ hostSessions' = SessionsAfterUpdate(q.sessionId, updated)
            /\ IF BothOptedIn(updated)
               THEN Continue(r, [q EXCEPT !.pc = "startFind"])
               ELSE Continue(r, [q EXCEPT !.pc = "respond"])
    /\ UNCHANGED <<swipes, reports, matches, chatRooms, hostMessages, timers,
                   nextId, now>>

\* startHostSession: chatHostSession.findUnique(sessionId)
StartHostSession_Find(r) ==
    LET q == req[r] IN
    /\ q.op = "optIn" /\ q.pc = "startFind"
    /\ IF SessionById(q.sessionId) = {}
       THEN Continue(r, [q EXCEPT !.pc = "respond"])
       ELSE Continue(r, [q EXCEPT !.pc = "startUpdate"])
    /\ UNCHANGED <<dbVars, timers, nextId, now>>

\* data: {status: 'active', currentStage: 'STAGE_1', startedAt}
StartChange(h) == [h EXCEPT !.status = "active", !.currentStage = "STAGE_1"]

StartHostSession_Update(r) ==
    LET q == req[r] IN
    /\ q.op = "optIn" /\ q.pc = "startUpdate"
    /\ IF UpdateFails(q.sessionId)
       THEN /\ Respond(r, HostResp("optIn", q.userId, q.matchId, 500))
            /\ UNCHANGED hostSessions
       ELSE /\ hostSessions' = SessionsAfterUpdate(q.sessionId,
                                 StartChange(TheSession(q.sessionId)))
            /\ Continue(r, [q EXCEPT !.pc = "startMatch"])
    /\ UNCHANGED <<swipes, reports, matches, chatRooms, hostMessages, timers,
                   nextId, now>>

\* match.findUnique(matchId) with its chatRoom
StartHostSession_Match(r) ==
    LET q == req[r] IN
    /\ q.op = "optIn" /\ q.pc = "startMatch"
    /\ IF MatchById(q.matchId) = {} \/ RoomOfMatch(q.matchId) = {}
       THEN Continue(r, [q EXCEPT !.pc = "respond"])
       ELSE Continue(r, [q EXCEPT !.pc = "startPrompt"])
    /\ UNCHANGED <<dbVars, timers, nextId, now>>

\* the STAGE_1 ice-breaker question
StartHostSession_Prompt(r) ==
    LET q == req[r] IN
    /\ q.op = "optIn" /\ q.pc = "startPrompt"
    /\ IF CreateMessageFails(q.sessionId)
       THEN /\ Respond(r, HostResp("optIn", q.userId, q.matchId, 500))
            /\ UNCHANGED hostMessages
       ELSE /\ LogHasRoom
            /\ hostMessages' = hostMessages (+)
                   One(HostMsg(q.sessionId, "question", "STAGE_1", "ice_breaker"))
            /\ Continue(r, [q EXCEPT !.pc = "respond"])
    /\ UNCHANGED <<swipes, reports, matches, chatRooms, hostSessions, timers,
                   nextId, now>>

\* the last match.findUnique, then the 200
OptInToHost_Respond(r) ==
    LET q == req[r] IN
    /\ q.op = "optIn" /\ q.pc = "respond"
    /\ Respond(r, HostResp("optIn", q.userId, q.matchId, 200))
    /\ UNCHANGED <<dbVars, timers, nextId, now>>

OptInToHost(r) ==
    \/ \E u \in Actors, mid \in Ids : OptInToHost_Begin(r, u, mid)
    \/ OptInToHost_Create(r)
    \/ OptInToHost_Update(r)
    \/ StartHostSession_Find(r)
    \/ StartHostSession_Update(r)
    \/ StartHostSession_Match(r)
    \/ StartHostSession_Prompt(r)
    \/ OptInToHost_Respond(r)

----------------------------------------------------------------------------
(* optOutOfHost: POST /api/host/:matchId/opt-out *)

\* !session || session.status !== 'active', only its first half
SessionNotActive_MissingOnly(found) == found = {}

\* !session || session.status !== 'active'
SessionNotActive(found) == found = {} \/ \A h \in found : h.status # "active"

\* data: {user1OptIn: false} or {user2OptIn: false}, and status: 'declined'
OptOutChange(h, isUser1) ==
    IF isUser1 THEN [h EXCEPT !.user1OptIn = FALSE, !.status = "declined"]
    ELSE [h EXCEPT !.user2OptIn = FALSE, !.status = "declined"]

OptOutOfHost_Begin(r, u, mid) ==
    /\ Free(r)
    /\ LET found == SessionOfMatch(mid) IN
       IF ~IsParticipant(u, mid)
       THEN Respond(r, HostResp("optOut", u, mid, 403))
       ELSE IF found = {}
       THEN Respond(r, HostResp("optOut", u, mid, 200))
       ELSE Continue(r, [op |-> "optOut", pc |-> "update", userId |-> u,
                         matchId |-> mid, isUser1 |-> IsUser1(u, mid),
                         sessionId |-> (CHOOSE h \in found : TRUE).id])
    /\ UNCHANGED <<dbVars, timers, nextId, now>>

OptOutOfHost_Update(r) ==
    LET q == req[r] IN
    /\ q.op = "optOut" /\ q.pc = "update"
    /\ IF UpdateFails(q.sessionId)
       THEN /\ Respond(r, HostResp("optOut", q.userId, q.matchId, 500))
            /\ UNCHANGED hostSessions
       ELSE /\ hostSessions' = SessionsAfterUpdate(q.sessionId,
                                 OptOutChange(TheSession(q.sessionId), q.isUser1))
            /\ Respond(r, HostResp("optOut", q.userId, q.matchId, 200))
    /\ UNCHANGED <<swipes, reports, matches, chatRooms, hostMessages, timers,
                   nextId, now>>

OptOutOfHost(r) ==
    \/ \E u \in Actors, mid \in Ids : OptOutOfHost_Begin(r, u, mid)
    \/ OptOutOfHost_Update(r)

----------------------------------------------------------------------------
(* exitHost: POST /api/host/:matchId/exit *)

\* the stage left where it was
ExitChange_StatusOnly(h) == [h EXCEPT !.status = "exited"]

\* data: {status: 'exited', currentStage: 'STAGE_6', completedAt}
ExitChange(h) == [h EXCEPT !.status = "exited", !.currentStage = "STAGE_6"]

\* the exit message
Farewell(sid) == HostMsg(sid, "text", "STAGE_6", "exit")

ExitHost_Begin(r, u, mid) ==
    /\ Free(r)
    /\ LET found == SessionOfMatch(mid) IN
       IF ~IsParticipant(u, mid)
       THEN Respond(r, HostResp("exit", u, mid, 403))
       ELSE IF SessionNotActive(found)
       THEN Respond(r, HostResp("exit", u, mid, 400))
       ELSE Continue(r, [op |-> "exit", pc |-> "update", userId |-> u,
                         matchId |-> mid,
                         sessionId |-> (CHOOSE h \in found : TRUE).id])
    /\ UNCHANGED <<dbVars, timers, nextId, now>>

ExitHost_Update(r) ==
    LET q == req[r] IN
    /\ q.op = "exit" /\ q.pc = "update"
    /\ IF UpdateFails(q.sessionId)
       THEN /\ Respond(r, HostResp("exit", q.userId, q.matchId, 500))
            /\ UNCHANGED hostSessions
       ELSE /\ CopiesIn(Farewell(q.sessionId), hostMessages) < MaxExits
            /\ hostSessions' = SessionsAfterUpdate(q.sessionId,
                                 ExitChange(TheSession(q.sessionId)))
            /\ Continue(r, [q EXCEPT !.pc = "farewell"])
    /\ UNCHANGED <<swipes, reports, matches, chatRooms, hostMessages, timers,
                   nextId, now>>

ExitHost_Farewell(r) ==
    LET q == req[r] IN
    /\ q.op = "exit" /\ q.pc = "farewell"
    /\ IF CreateMessageFails(q.sessionId)
       THEN /\ Respond(r, HostResp("exit", q.userId, q.matchId, 500))
            /\ UNCHANGED hostMessages
       ELSE /\ LogHasRoom
            /\ hostMessages' = hostMessages (+) One(Farewell(q.sessionId))
            /\ Respond(r, HostResp("exit", q.userId, q.matchId, 200))
    /\ UNCHANGED <<swipes, reports, matches, chatRooms, hostSessions, timers,
                   nextId, now>>

ExitHost(r) ==
    \/ \E u \in Actors, mid \in Ids : ExitHost_Begin(r, u, mid)
    \/ ExitHost_Update(r)
    \/ ExitHost_Farewell(r)

----------------------------------------------------------------------------
(* submitHostAnswer: POST /api/host/:matchId/answer, with                  *)
(* processNextHostStep                                                     *)

\* the questionId values a client sends; NoId stands for none
QuestionIds == {1}
Answers == {"a"}

\* const answerKey = questionId || `q_${Date.now()}`
AnswerKey(qid, t) ==
    IF qid # NoId THEN [kind |-> "id", v |-> qid] ELSE [kind |-> "q_", v |-> t]

\* answers[answerKey] = {userId, answer, timestamp}; stageData.answers = answers
WithAnswer(data, key, u, a) ==
    [isNull |-> FALSE, gameRounds |-> data.gameRounds,
     answers |-> (key :> [userId |-> u, answer |-> a]) @@ data.answers]

\* stageData: {}
EmptyData == [isNull |-> FALSE, gameRounds |-> 0, answers |-> <<>>]

\* stageData: {gameRounds: n, answers: {}}
RoundData(n) == [isNull |-> FALSE, gameRounds |-> n, answers |-> <<>>]

\* Object.values(answers).filter(a => a.userId === u).length
AnswersOf(data, u) ==
    Cardinality({k \in DOMAIN data.answers : data.answers[k].userId = u})

\* Object.keys(answers).length
AnswerCount(data) == Cardinality(DOMAIN data.answers)

\* the ice-breaker is answered once by each participant
Stage1Complete(data, u1, u2) == AnswersOf(data, u1) = 1 /\ AnswersOf(data, u2) = 1

\* a round that one answer completes
RoundComplete_OneAnswer(data) == AnswerCount(data) >= 1

\* the gate of STAGE_2, STAGE_3, STAGE_4, STAGE_4B and STAGE_4C
RoundComplete(data) == AnswerCount(data) >= 2

\* THIS_OR_THAT_QUESTIONS and QUICK_FIRE_QUESTIONS are played up to index 2
LastRound == 2

\* where processNextHostStep goes from the stage and the stageData it read
NextHostStep(stage, data, u1, u2) ==
    CASE stage = "STAGE_1" ->
             IF Stage1Complete(data, u1, u2) THEN "stage1Advance" ELSE "done"
      [] stage = "STAGE_2" ->
             IF RoundComplete(data) THEN "stage2Comment" ELSE "done"
      [] stage = "STAGE_3" ->
             IF RoundComplete(data) THEN "stage3LastPrompt" ELSE "done"
      [] stage = "STAGE_4" ->
             IF ~RoundComplete(data) THEN "done"
             ELSE IF data.gameRounds < LastRound THEN "stage4NextRound"
             ELSE "moveToWouldYouRather"
      [] stage = "STAGE_4B" ->
             IF RoundComplete(data) THEN "stage4BReaction" ELSE "done"
      [] stage = "STAGE_4C" ->
             IF RoundComplete(data) THEN "stage4CReaction" ELSE "done"
      [] OTHER -> "done"

AnswerResp(q, status) ==
    [op |-> "submitAnswer", userId |-> q.userId, matchId |-> q.matchId,
     questionId |-> q.questionId, status |-> status]

SubmitHostAnswer_Begin(r, u, mid, a, qid) ==
    /\ Free(r)
    /\ LET found == SessionOfMatch(mid)
           q == [op |-> "submitAnswer", pc |-> "saveAnswer", userId |-> u,
                 matchId |-> mid, answer |-> a, questionId |-> qid]
       IN
       IF ~IsParticipant(u, mid)
       THEN Respond(r, AnswerResp(q, 403))
       ELSE IF SessionNotActive(found)
       THEN Respond(r, AnswerResp(q, 400))
       ELSE LET h == CHOOSE x \in found : TRUE IN
            Continue(r, q @@ [sessionId |-> h.id,
                              sender |-> IF IsUser1(u, mid) THEN "user1"
                                         ELSE "user2",
                              readStage |-> h.currentStage,
                              readData |-> h.stageData,
                              stage |-> "none", data |-> NullData])
    /\ UNCHANGED <<dbVars, timers, nextId, now>>

\* chatHostMessage.create for the answer
SubmitHostAnswer_Save(r) ==
    LET q == req[r] IN
    /\ q.op = "submitAnswer" /\ q.pc = "saveAnswer"
    /\ IF CreateMessageFails(q.sessionId)
       THEN /\ Respond(r, AnswerResp(q, 500))
            /\ UNCHANGED hostMessages
       ELSE /\ LogHasRoom
            /\ hostMessages' = LogWith(UserMsg(q.sessionId, q.sender))
            /\ Continue(r, [q EXCEPT !.pc = "updateData"])
    /\ UNCHANGED <<swipes, reports, matches, chatRooms, hostSessions, timers,
                   nextId, now>>

\* the stageData read at the start, with the answer added, replaces the
\* column; the reaction is scheduled 500 ms later
SubmitHostAnswer_Update(r) ==
    LET q == req[r]
        key == AnswerKey(q.questionId, now)
        new == [TheSession(q.sessionId) EXCEPT !.stageData =
                   WithAnswer(q.readData, key, q.userId, q.answer)]
    IN
    /\ q.op = "submitAnswer" /\ q.pc = "updateData"
    /\ IF UpdateFails(q.sessionId)
       THEN /\ Respond(r, AnswerResp(q, 500))
            /\ UNCHANGED <<hostSessions, timers>>
       ELSE /\ BagCardinality(timers) < MaxTimers
            /\ hostSessions' = SessionsAfterUpdate(q.sessionId, new)
            /\ timers' = timers (+) One([kind |-> "reaction",
                                         sessionId |-> q.sessionId,
                                         stage |-> q.readStage])
            /\ Continue(r, [q EXCEPT !.pc = "processNext"])
    /\ UNCHANGED <<swipes, reports, matches, chatRooms, hostMessages, nextId, now>>

\* processNextHostStep: chatHostSession.findUnique(sessionId)
ProcessNextHostStep_Find(r) ==
    LET q == req[r]
        found == SessionById(q.sessionId)
    IN
    /\ q.op = "submitAnswer" /\ q.pc = "processNext"
    /\ IF found = {}
       THEN Respond(r, AnswerResp(q, 200))
       ELSE LET h == CHOOSE x \in found : TRUE IN
            Continue(r, [q EXCEPT !.pc = "findMatch",
                                  !.stage = h.currentStage,
                                  !.data = h.stageData])
    /\ UNCHANGED <<dbVars, timers, nextId, now>>

\* match.findUnique(matchId), then the branch on the stage
ProcessNextHostStep_Match(r) ==
    LET q == req[r]
        found == MatchById(q.matchId)
    IN
    /\ q.op = "submitAnswer" /\ q.pc = "findMatch"
    /\ IF found = {}
       THEN Respond(r, AnswerResp(q, 200))
       ELSE LET m == CHOOSE x \in found : TRUE
                step == NextHostStep(q.stage, q.data, m.user1Id, m.user2Id)
            IN IF step = "done"
               THEN Respond(r, AnswerResp(q, 200))
               ELSE Continue(r, [q EXCEPT !.pc = step])
    /\ UNCHANGED <<dbVars, timers, nextId, now>>

\* a chatHostSession.update inside processNextHostStep
StepUpdate(r, new, then) ==
    LET q == req[r] IN
    /\ IF UpdateFails(q.sessionId)
       THEN /\ Respond(r, AnswerResp(q, 500))
            /\ UNCHANGED hostSessions
       ELSE /\ hostSessions' = SessionsAfterUpdate(q.sessionId, new)
            /\ IF then = "done"
               THEN Respond(r, AnswerResp(q, 200))
               ELSE Continue(r, [q EXCEPT !.pc = then])
    /\ UNCHANGED <<swipes, reports, matches, chatRooms, hostMessages, nextId, now>>

\* a chatHostMessage.create inside processNextHostStep
StepMessage(r, row, then) ==
    LET q == req[r] IN
    /\ IF CreateMessageFails(q.sessionId)
       THEN /\ Respond(r, AnswerResp(q, 500))
            /\ UNCHANGED hostMessages
       ELSE /\ LogHasRoom
            /\ hostMessages' = hostMessages (+) One(row)
            /\ IF then = "done"
               THEN Respond(r, AnswerResp(q, 200))
               ELSE Continue(r, [q EXCEPT !.pc = then])
    /\ UNCHANGED <<swipes, reports, matches, chatRooms, hostSessions, nextId, now>>

\* STAGE_1: data: {currentStage: 'STAGE_2'}
Stage1_Advance(r) ==
    /\ req[r].op = "submitAnswer" /\ req[r].pc = "stage1Advance"
    /\ StepUpdate(r, [TheSession(req[r].sessionId) EXCEPT
                          !.currentStage = "STAGE_2"], "stage1Prompt")
    /\ UNCHANGED timers

\* STAGE_1: the first "This or That" question
Stage1_Prompt(r) ==
    /\ req[r].op = "submitAnswer" /\ req[r].pc = "stage1Prompt"
    /\ StepMessage(r, HostMsg(req[r].sessionId, "game_prompt", "STAGE_2",
                              "this_or_that"), "stage1Reset")
    /\ UNCHANGED timers

\* STAGE_1: data: {stageData: {}}
Stage1_Reset(r) ==
    /\ req[r].op = "submitAnswer" /\ req[r].pc = "stage1Reset"
    /\ StepUpdate(r, [TheSession(req[r].sessionId) EXCEPT
                          !.stageData = EmptyData], "done")
    /\ UNCHANGED timers

\* STAGE_2: the follow-up comment on the round
Stage2_Comment(r) ==
    /\ req[r].op = "submitAnswer" /\ req[r].pc = "stage2Comment"
    /\ StepMessage(r, HostMsg(req[r].sessionId, "text", "STAGE_2", "comment"),
                   IF req[r].data.gameRounds < LastRound
                   THEN "stage2NextRound" ELSE "moveToStage3")
    /\ UNCHANGED timers

\* STAGE_2: the next round is written and its question scheduled 2000 ms later
Stage2_NextRound(r) ==
    LET q == req[r] IN
    /\ q.op = "submitAnswer" /\ q.pc = "stage2NextRound"
    /\ StepUpdate(r, [TheSession(q.sessionId) EXCEPT
                          !.stageData = RoundData(q.data.gameRounds + 1)], "done")
    /\ IF UpdateFails(q.sessionId)
       THEN UNCHANGED timers
       ELSE /\ BagCardinality(timers) < MaxTimers
            /\ timers' = timers (+) One([kind |-> "nextQuestion",
                                         sessionId |-> q.sessionId,
                                         stage |-> "STAGE_2"])

\* the stage a completed stage hands over to
Successor(stage) ==
    CASE stage = "STAGE_1" -> "STAGE_2"
      [] stage = "STAGE_2" -> "STAGE_3"
      [] stage = "STAGE_3" -> "STAGE_4"
      [] stage = "STAGE_4" -> "STAGE_4B"
      [] stage = "STAGE_4B" -> "STAGE_4C"
      [] stage = "STAGE_4C" -> "STAGE_4D"
      [] stage = "STAGE_4D" -> "STAGE_5"

\* what moveToStage3, moveToQuickFire, moveToWouldYouRather, moveToRateScale
\* and moveToTwoTruths write into the row, whatever its status and stage
\* are, and what moveToHandoff writes
MoveChange(h, stage) ==
    IF stage = "STAGE_5"
    THEN [h EXCEPT !.currentStage = "STAGE_5", !.status = "completed"]
    ELSE [h EXCEPT !.currentStage = stage, !.stageData = RoundData(0)]

\* moveToStage3 and moveToWouldYouRather, awaited by the request: the update
MoveTo_Update(r) ==
    LET q == req[r] IN
    /\ q.op = "submitAnswer"
    /\ q.pc \in {"moveToStage3", "moveToWouldYouRather"}
    /\ StepUpdate(r, MoveChange(TheSession(q.sessionId), Successor(q.stage)),
                  "movePrompt")
    /\ UNCHANGED timers

\* moveToStage3 and moveToWouldYouRather: the prompt of the new stage
MoveTo_Prompt(r) ==
    LET q == req[r] IN
    /\ q.op = "submitAnswer" /\ q.pc = "movePrompt"
    /\ StepMessage(r, MoveRow(q.sessionId, Successor(q.stage)), "done")
    /\ UNCHANGED timers

\* STAGE_3: chatHostMessage.findFirst of the last game_prompt
Stage3_LastPrompt(r) ==
    LET q == req[r] IN
    /\ q.op = "submitAnswer" /\ q.pc = "stage3LastPrompt"
    /\ Continue(r, [q EXCEPT !.pc = "stage3Reveal"])
    /\ UNCHANGED <<dbVars, timers, nextId, now>>

\* STAGE_3, STAGE_4B, STAGE_4C: the closing text is sent and the move to the
\* next stage scheduled 2000 or 2500 ms later
Stage_Close(r) ==
    LET q == req[r] IN
    /\ q.op = "submitAnswer"
    /\ q.pc \in {"stage3Reveal", "stage4BReaction", "stage4CReaction"}
    /\ StepMessage(r, ClosingRow(q.sessionId, q.stage), "done")
    /\ IF CreateMessageFails(q.sessionId)
       THEN UNCHANGED timers
       ELSE /\ BagCardinality(timers) < MaxTimers
            /\ timers' = timers (+) One([kind |-> "move",
                                         sessionId |-> q.sessionId,
                                         stage |-> Successor(q.stage)])

\* STAGE_4: the next round is written and its question scheduled 1500 ms later
Stage4_NextRound(r) ==
    LET q == req[r] IN
    /\ q.op = "submitAnswer" /\ q.pc = "stage4NextRound"
    /\ StepUpdate(r, [TheSession(q.sessionId) EXCEPT
                          !.stageData = RoundData(q.data.gameRounds + 1)], "done")
    /\ IF UpdateFails(q.sessionId)
       THEN UNCHANGED timers
       ELSE /\ BagCardinality(timers) < MaxTimers
            /\ timers' = timers (+) One([kind |-> "nextQuestion",
                                         sessionId |-> q.sessionId,
                                         stage |-> "STAGE_4"])

SubmitHostAnswer(r) ==
    \/ \E u \in Actors, mid \in Ids, a \in Answers, qid \in QuestionIds \cup {NoId} :
           SubmitHostAnswer_Begin(r, u, mid, a, qid)
    \/ SubmitHostAnswer_Save(r)
    \/ SubmitHostAnswer_Update(r)
    \/ ProcessNextHostStep_Find(r)
    \/ ProcessNextHostStep_Match(r)
    \/ Stage1_Advance(r)
    \/ Stage1_Prompt(r)
    \/ Stage1_Reset(r)
    \/ Stage2_Comment(r)
    \/ Stage2_NextRound(r)

----------------------------------------------------------------------------
(* setTimeout callbacks and the clock *)

\* the quick acknowledgement of an answer; an error in it is not handled
Timer_Reaction(t) ==
    /\ t.kind = "reaction"
    /\ timers' = timers (-) One(t)
    /\ IF CreateMessageFails(t.sessionId)
       THEN UNCHANGED hostMessages
       ELSE /\ LogHasRoom
            /\ hostMessages' = hostMessages (+)
                   One(HostMsg(t.sessionId, "text", t.stage, "reaction"))
    /\ response' = NoResponse
    /\ UNCHANGED <<swipes, reports, matches, chatRooms, hostSessions, nextId,
                   now, req>>

\* the question of the next round of STAGE_2 or STAGE_4
Timer_NextQuestion(t) ==
    /\ t.kind = "nextQuestion"
    /\ timers' = timers (-) One(t)
    /\ IF CreateMessageFails(t.sessionId)
       THEN UNCHANGED hostMessages
       ELSE /\ LogHasRoom
            /\ hostMessages' = hostMessages (+)
                   One(HostMsg(t.sessionId, "game_prompt", t.stage, "next_question"))
    /\ response' = NoResponse
    /\ UNCHANGED <<swipes, reports, matches, chatRooms, hostSessions, nextId,
                   now, req>>

\* moveToQuickFire, moveToRateScale, moveToTwoTruths, moveToHandoff called
\* from a setTimeout: the update; an error in it is not handled
Timer_MoveUpdate(t) ==
    /\ t.kind = "move"
    /\ IF UpdateFails(t.sessionId)
       THEN /\ timers' = timers (-) One(t)
            /\ UNCHANGED hostSessions
       ELSE /\ hostSessions' = SessionsAfterUpdate(t.sessionId,
                                   MoveChange(TheSession(t.sessionId), t.stage))
            /\ timers' = (timers (-) One(t)) (+) One([t EXCEPT !.kind = "movePrompt"])
    /\ response' = NoResponse
    /\ UNCHANGED <<swipes, reports, matches, chatRooms, hostMessages, nextId,
                   now, req>>

\* the prompt of the new stage with no moveToHandoff scheduled after it
Timer_MovePrompt_Unscheduled(t) ==
    /\ t.kind = "movePrompt"
    /\ timers' = timers (-) One(t)
    /\ IF CreateMessageFails(t.sessionId)
       THEN UNCHANGED hostMessages
       ELSE hostMessages' = LogWith(MoveRow(t.sessionId, t.stage))
    /\ response' = NoResponse
    /\ UNCHANGED <<swipes, reports, matches, chatRooms, hostSessions, nextId,
                   now, req>>

\* the same callbacks: the prompt of the new stage, or the handoff text;
\* moveToTwoTruths then schedules moveToHandoff 60000 ms later
Timer_MovePrompt(t) ==
    /\ t.kind = "movePrompt"
    /\ IF CreateMessageFails(t.sessionId)
       THEN /\ timers' = timers (-) One(t)
            /\ UNCHANGED hostMessages
       ELSE /\ hostMessages' = LogWith(MoveRow(t.sessionId, t.stage))
            /\ timers' = (timers (-) One(t)) (+)
                   (IF t.stage = "STAGE_4D"
                    THEN One([kind |-> "move", sessionId |-> t.sessionId,
                              stage |-> Successor(t.stage)])
                    ELSE EmptyBag)
    /\ response' = NoResponse
    /\ UNCHANGED <<swipes, reports, matches, chatRooms, hostSessions, nextId,
                   now, req>>

\* a millisecond passes
Tick ==
    /\ now < MaxClock
    /\ now' = now + 1
    /\ response' = NoResponse
    /\ UNCHANGED <<dbVars, timers, nextId, req>>

----------------------------------------------------------------------------
(* The host machine of one match *)

\* users 1 and 2 have liked each other: match 1 and its chat room exist
InitHost ==
    /\ swipes = One([swiperId |-> 1, swipedId |-> 2, direction |-> "like"])
                (+) One([swiperId |-> 2, swipedId |-> 1, direction |-> "like"])
    /\ reports = EmptyBag
    /\ matches = {[id |-> 1, user1Id |-> 1, user2Id |-> 2]}
    /\ chatRooms = {[id |-> 1, matchId |-> 1]}
    /\ hostSessions = {}
    /\ hostMessages = EmptyBag
    /\ timers = EmptyBag
    /\ nextId = [t \in {"match", "room", "session"} |->
                    IF t = "session" THEN 1 ELSE 2]
    /\ now = 0
    /\ req = [r \in Reqs |-> Idle]
    /\ response = [op |-> "recordSwipe", userId |-> 2, targetUserId |-> 1,
                   direction |-> "like", status |-> 200, isMatch |-> TRUE,
                   matchId |-> 1, chatRoomId |-> 1]

\* opting in and out, starting and leaving, under concurrent requests
NextHost ==
    \E r \in Reqs :
        \/ GetHostSession(r)
        \/ OptInToHost(r)
        \/ OptOutOfHost(r)
        \/ ExitHost(r)

\* every operation of the host, one request at a time, with the callbacks
NextHostSeq ==
    \/ \E r \in Reqs :
           /\ Alone(r)
           /\ \/ GetHostSession(r)
              \/ OptInToHost(r)
              \/ OptOutOfHost(r)
              \/ SubmitHostAnswer(r)
              \/ ExitHost(r)
    \/ \E t \in BagToSet(timers) : Timer_Reaction(t)
    \/ \E t \in BagToSet(timers) : Timer_NextQuestion(t)
    \/ Tick

SpecHost == InitHost /\ [][NextHost]_vars

\* both participants have opted in: the session of match 1 has just been
\* started and its ice-breaker sent
InitActive ==
    /\ swipes = One([swiperId |-> 1, swipedId |-> 2, direction |-> "like"])
                (+) One([swiperId |-> 2, swipedId |-> 1, direction |-> "like"])
    /\ reports = EmptyBag
    /\ matches = {[id |-> 1, user1Id |-> 1, user2Id |-> 2]}
    /\ chatRooms = {[id |-> 1, matchId |-> 1]}
    /\ hostSessions = {StartChange([NewSession(1, 1, 1) EXCEPT
                                        !.user1OptIn = TRUE,
                                        !.user2OptIn = TRUE])}
    /\ hostMessages = One(HostMsg(1, "question", "STAGE_1", "ice_breaker"))
    /\ timers = EmptyBag
    /\ nextId = [t \in {"match", "room", "session"} |-> 2]
    /\ now = 0
    /\ req = [r \in Reqs |-> Idle]
    /\ response = HostResp("optIn", 2, 1, 200)

\* no other answer is being handled
OneAnswer(r) == \A r2 \in Reqs \ {r} : req[r2].op # "submitAnswer"

\* a started session: answers are handled one at a time, an exit runs
\* concurrently with the answer in flight and with the callbacks
NextHostRace ==
    \/ \E r \in Reqs : OneAnswer(r) /\ SubmitHostAnswer(r)
    \/ \E r \in Reqs : ExitHost(r)
    \/ \E t \in BagToSet(timers) : Timer_Reaction(t)
    \/ \E t \in BagToSet(timers) : Timer_NextQuestion(t)

SpecHostRace == InitActive /\ [][NextHostRace]_vars

SpecHostSeq == InitHost /\ [][NextHostSeq]_vars

\* the participant has sent no answer yet
NotAnswered(u) ==
    /\ \A r \in Reqs : req[r] # Idle => req[r].userId # u
    /\ \A h \in hostSessions :
           CopiesIn(UserMsg(h.id, IF IsUser1(u, h.matchId) THEN "user1"
                                  ELSE "user2"), hostMessages) = 0

\* the two participants answer the ice-breaker, once each, their requests
\* interleaved step by step
NextIceBreakerRace ==
    \/ \E r \in Reqs, u \in Actors, a \in Answers, qid \in QuestionIds \cup {NoId} :
           NotAnswered(u) /\ SubmitHostAnswer_Begin(r, u, 1, a, qid)
    \/ \E r \in Reqs : SubmitHostAnswer_Save(r)
    \/ \E r \in Reqs : SubmitHostAnswer_Update(r)
    \/ \E r \in Reqs : ProcessNextHostStep_Find(r)
    \/ \E r \in Reqs : ProcessNextHostStep_Match(r)
    \/ \E r \in Reqs : Stage1_Advance(r)
    \/ \E r \in Reqs : Stage1_Prompt(r)
    \/ \E r \in Reqs : Stage1_Reset(r)
    \/ \E t \in BagToSet(timers) : Timer_Reaction(t)
    \/ Tick

SpecIceBreakerRace == InitActive /\ [][NextIceBreakerRace]_vars

\* a session whose participants have answered every round once, at the
\* opening of round i; at STAGE_4D the handoff is scheduled
InitRound(i) ==
    /\ swipes = One([swiperId |-> 1, swipedId |-> 2, direction |-> "like"])
                (+) One([swiperId |-> 2, swipedId |-> 1, direction |-> "like"])
    /\ reports = EmptyBag
    /\ matches = {[id |-> 1, user1Id |-> 1, user2Id |-> 2]}
    /\ chatRooms = {[id |-> 1, matchId |-> 1]}
    /\ hostSessions = {[StartChange([NewSession(1, 1, 1) EXCEPT
                                         !.user1OptIn = TRUE,
                                         !.user2OptIn = TRUE])
                          EXCEPT !.currentStage = Rounds[i][1],
                                 !.stageData = RoundData(Rounds[i][2])]}
    /\ hostMessages = CleanLog(1, i)
    /\ timers = IF Rounds[i][1] = "STAGE_4D"
                THEN One([kind |-> "move", sessionId |-> 1, stage |-> "STAGE_5"])
                ELSE EmptyBag
    /\ nextId = [t \in {"match", "room", "session"} |-> 2]
    /\ now = 0
    /\ req = [r \in Reqs |-> Idle]
    /\ response = NoResponse

\* the games from the second round of STAGE_2 to the handoff: answers are
\* handled one at a time, the callbacks run in between
NextLateGame ==
    \/ \E r \in Reqs, u \in Actors, a \in Answers, qid \in QuestionIds \cup {NoId} :
           Alone(r) /\ SubmitHostAnswer_Begin(r, u, 1, a, qid)
    \/ \E r \in Reqs : SubmitHostAnswer_Save(r)
    \/ \E r \in Reqs : SubmitHostAnswer_Update(r)
    \/ \E r \in Reqs : ProcessNextHostStep_Find(r)
    \/ \E r \in Reqs : ProcessNextHostStep_Match(r)
    \/ \E r \in Reqs : Stage2_Comment(r)
    \/ \E r \in Reqs : Stage2_NextRound(r)
    \/ \E r \in Reqs : MoveTo_Update(r)
    \/ \E r \in Reqs : MoveTo_Prompt(r)
    \/ \E r \in Reqs : Stage3_LastPrompt(r)
    \/ \E r \in Reqs : Stage_Close(r)
    \/ \E r \in Reqs : Stage4_NextRound(r)
    \/ \E t \in BagToSet(timers) : Timer_Reaction(t)
    \/ \E t \in BagToSet(timers) : Timer_NextQuestion(t)
    \/ \E t \in BagToSet(timers) : Timer_MoveUpdate(t)
    \/ \E t \in BagToSet(timers) : Timer_MovePrompt(t)

SpecLateGame == InitRound(3) /\ [][NextLateGame]_vars

\* a restart that hands off the sessions it finds in STAGE_4D
Restart_Recovering ==
    /\ timers # EmptyBag \/ \E r \in Reqs : req[r] # Idle
    /\ timers' = EmptyBag
    /\ req' = [r \in Reqs |-> Idle]
    /\ response' = NoResponse
    /\ hostSessions' = {IF h.currentStage = "STAGE_4D" /\ h.status = "active"
                        THEN MoveChange(h, "STAGE_5") ELSE h : h \in hostSessions}
    /\ UNCHANGED <<swipes, reports, matches, chatRooms, hostMessages, nextId, now>>

\* the questionId in the metadata of a round's prompt, `q_${Date.now()}`:
\* one per prompt
PromptId(round) == round + 1

\* the last two rounds of STAGE_2 with clients that send the questionId of
\* a prompt of this stage, of the round being played or of an earlier one,
\* or none
NextStaleAnswer ==
    \/ \E r \in Reqs, u \in Actors, a \in Answers,
          qid \in {NoId} \cup {PromptId(k) : k \in 0 .. LastRound} :
           /\ Alone(r)
           /\ \E h \in hostSessions :
                  /\ h.currentStage = "STAGE_2"
                  /\ qid <= PromptId(h.stageData.gameRounds)
           /\ SubmitHostAnswer_Begin(r, u, 1, a, qid)
    \/ \E r \in Reqs : SubmitHostAnswer_Save(r)
    \/ \E r \in Reqs : SubmitHostAnswer_Update(r)
    \/ \E r \in Reqs : ProcessNextHostStep_Find(r)
    \/ \E r \in Reqs : ProcessNextHostStep_Match(r)
    \/ \E r \in Reqs : Stage2_Comment(r)
    \/ \E r \in Reqs : Stage2_NextRound(r)
    \/ \E r \in Reqs : MoveTo_Update(r)
    \/ \E r \in Reqs : MoveTo_Prompt(r)
    \/ \E t \in BagToSet(timers) : Timer_Reaction(t)
    \/ \E t \in BagToSet(timers) : Timer_NextQuestion(t)

SpecStaleAnswer == InitRound(3) /\ [][NextStaleAnswer]_vars

\* the process is restarted: the setTimeout callbacks not yet run and the
\* requests in flight are gone, the database is what it was
Restart ==
    /\ timers # EmptyBag \/ \E r \in Reqs : req[r] # Idle
    /\ timers' = EmptyBag
    /\ req' = [r \in Reqs |-> Idle]
    /\ response' = NoResponse
    /\ UNCHANGED <<dbVars, nextId, now>>

\* the end of the game, from the rate scale to the handoff, while the
\* process keeps running
NextTwoTruthsRunning ==
    \/ \E r \in Reqs, u \in Actors, a \in Answers, qid \in QuestionIds \cup {NoId} :
           Alone(r) /\ SubmitHostAnswer_Begin(r, u, 1, a, qid)
    \/ \E r \in Reqs : SubmitHostAnswer_Save(r)
    \/ \E r \in Reqs : SubmitHostAnswer_Update(r)
    \/ \E r \in Reqs : ProcessNextHostStep_Find(r)
    \/ \E r \in Reqs : ProcessNextHostStep_Match(r)
    \/ \E r \in Reqs : Stage_Close(r)
    \/ \E t \in BagToSet(timers) : Timer_Reaction(t)
    \/ \E t \in BagToSet(timers) : Timer_MoveUpdate(t)
    \/ \E t \in BagToSet(timers) : Timer_MovePrompt(t)

\* the end of the game where the session may be left and entered again, one
\* request at a time, while the callbacks scheduled before run
NextReentry ==
    \/ NextTwoTruthsRunning
    \/ \E r \in Reqs, u \in Actors : Alone(r) /\ ExitHost_Begin(r, u, 1)
    \/ \E r \in Reqs : ExitHost_Update(r)
    \/ \E r \in Reqs : ExitHost_Farewell(r)
    \/ \E r \in Reqs, u \in Actors : Alone(r) /\ OptInToHost_Begin(r, u, 1)
    \/ \E r \in Reqs : OptInToHost_Update(r)
    \/ \E r \in Reqs : StartHostSession_Find(r)
    \/ \E r \in Reqs : StartHostSession_Update(r)
    \/ \E r \in Reqs : StartHostSession_Match(r)
    \/ \E r \in Reqs : StartHostSession_Prompt(r)
    \/ \E r \in Reqs : OptInToHost_Respond(r)

SpecReentry == InitRound(10) /\ [][NextReentry]_vars

NextTwoTruths ==
    \/ NextTwoTruthsRunning
    \/ Restart

SpecTwoTruths == InitRound(10) /\ [][NextTwoTruths]_vars

\* a callback scheduled with setTimeout runs when the process stays up
SpecTwoTruthsLive ==
    /\ InitRound(10)
    /\ [][NextTwoTruthsRunning]_vars
    /\ WF_vars(\E t \in BagToSet(timers) : Timer_MoveUpdate(t))
    /\ WF_vars(\E t \in BagToSet(timers) : Timer_MovePrompt(t))


----------------------------------------------------------------------------

Init ==
    /\ swipes = EmptyBag
    /\ reports = EmptyBag
    /\ matches = {}
    /\ chatRooms = {}
    /\ hostSessions = {}
    /\ hostMessages = EmptyBag
    /\ timers = EmptyBag
    /\ nextId = [t \in {"match", "room", "session"} |-> 1]
    /\ now = 0
    /\ req = [r \in Reqs |-> Idle]
    /\ response = NoResponse

\* the swipe ledger and the match resolver under concurrent requests
Next ==
    \E r \in Reqs :
        \/ RecordSwipe(r)
        \/ \E u \in Actors : ResetSwipes(r, u)

\* every operation of the swipe engine, one request at a time

NextSeq ==
    \E r \in Reqs :
        /\ Alone(r)
        /\ \/ RecordSwipe(r)
           \/ \E u \in Actors : ResetSwipes(r, u)
           \/ UnmatchUser(r)
           \/ SubmitReport(r)
           \/ GetSwipeProfiles(r)
           \/ GetHostSession(r)

SpecSeq == Init /\ [][NextSeq]_vars

Spec == Init /\ [][Next]_vars

\* users 2 and 3 have matched and their room has a host session; user 1 has
\* no part in it
InitThirdParty ==
    /\ swipes = One([swiperId |-> 2, swipedId |-> 3, direction |-> "like"])
                (+) One([swiperId |-> 3, swipedId |-> 2, direction |-> "like"])
    /\ reports = EmptyBag
    /\ matches = {[id |-> 1, user1Id |-> 2, user2Id |-> 3]}
    /\ chatRooms = {[id |-> 1, matchId |-> 1]}
    /\ hostSessions = {NewSession(1, 1, 1)}
    /\ hostMessages = EmptyBag
    /\ timers = EmptyBag
    /\ nextId = [t \in {"match", "room", "session"} |-> 2]
    /\ now = 0
    /\ req = [r \in Reqs |-> Idle]
    /\ response = NoResponse

\* swipes, unmatch and report, one request at a time, where the
\* swipe.deleteMany that ends a cleanup may fail
NextCleanup ==
    \E r \in Reqs :
        /\ Alone(r)
        /\ \/ RecordSwipe(r)
           \/ UnmatchUser(r)
           \/ UnmatchUser_DeleteSwipesFails(r)
           \/ SubmitReport(r)
           \/ SubmitReport_DeleteSwipesFails(r)

SpecCleanup == InitThirdParty /\ [][NextCleanup]_vars

\* likes and passes, one request at a time, where the query that follows the
\* insert of the Swipe row may fail
NextCrash ==
    \E r \in Reqs :
        /\ Alone(r)
        /\ \/ RecordSwipe(r)
           \/ RecordSwipe_FindMutualFails(r)

SpecCrash == Init /\ [][NextCrash]_vars

----------------------------------------------------------------------------
(* Properties of the swipe ledger and the match resolver *)

SwipeInFlight(a, b) ==
    \E r \in Reqs : /\ req[r].op = "recordSwipe"
                    /\ {req[r].userId, req[r].targetUserId} = {a, b}

\* C1: if A likes B and B likes A, in either order or interleaved, then once
\* both recordSwipe requests have finished exactly one Match row exists for
\* the pair, and it has user1Id < user2Id.
C1_MutualLikeOneMatch ==
    \A a \in Users, b \in Users :
        (a < b /\ LikeExists(a, b) /\ LikeExists(b, a) /\ ~SwipeInFlight(a, b))
        => /\ Cardinality(MatchesOfPair(a, b)) = 1
           /\ \A m \in MatchesOfPair(a, b) : m.user1Id < m.user2Id

\* both likes are recorded, both requests are over, the match is there
C1_Witness ==
    /\ LikeExists(1, 2) /\ LikeExists(2, 1) /\ ~SwipeInFlight(1, 2)
    /\ MatchesOfPair(1, 2) # {}
    /\ response.op = "recordSwipe" /\ response.status = 500
    /\ response.direction = "like"

\* C2: at most one Swipe row exists per ordered pair, also when requests of
\* the same swiper interleave; a recordSwipe issued when a Swipe row of the
\* ordered pair exists is answered with an error and adds no row, whatever
\* the direction.
C2_NoDuplicateSwipes ==
    [][ /\ \A u \in Users, t \in Users : SwipeCount(u, t)' <= 1
        /\ \A r \in Reqs, u \in Actors, t \in Users, d \in Directions :
              (RecordSwipe_Begin(r, u, t, d) /\ SwipeRows(u, t) # {})
              => /\ response'.op = "recordSwipe" /\ response'.status >= 400
                 /\ req'[r] = Idle
                 /\ swipes' = swipes ]_vars

\* a second swipe on the same target was refused, and one was refused by the
\* unique index after passing the check
C2_Witness ==
    /\ response.op = "recordSwipe" /\ response.status = 500
    /\ response.direction = "pass"
    /\ SwipeCount(response.userId, response.targetUserId) = 1

\* C3: recordSwipe with swiperId = targetId always returns an error and never
\* creates a Swipe, Match or ConversationRoom row.
C3_SelfSwipeRejected ==
    [][ /\ \A r \in Reqs, u \in Actors, d \in DirInputs :
              RecordSwipe_Begin(r, u, u, d)
              => /\ response'.op = "recordSwipe" /\ response'.status = 400
                 /\ ~response'.isMatch
                 /\ req'[r] = Idle
                 /\ UNCHANGED <<swipes, matches, chatRooms>>
        /\ \A s \in BagToSet(swipes') : s.swiperId # s.swipedId
        /\ \A m \in matches' : m.user1Id # m.user2Id ]_vars

C3_Witness ==
    /\ response.op = "recordSwipe"
    /\ response.userId = response.targetUserId
    /\ response.direction = "like"
    /\ response.status = 400
    /\ swipes # EmptyBag

\* C9: when a user records a like on a target who already holds a like on
\* that user and no Match exists for the pair, the response has isMatch=true,
\* exactly one Match row is created with user1Id the smaller and user2Id the
\* larger id, and its ConversationRoom is created with it.
C9_LikeBackCreatesMatch ==
    [][ \A r \in Reqs :
          LET q == req[r] IN
          ( /\ q.op = "recordSwipe" /\ q.direction = "like"
            /\ q.pc # "createSwipe"
            /\ LikeExists(q.targetUserId, q.userId)
            /\ MatchesOfPair(q.userId, q.targetUserId) = {}
            /\ req'[r] = Idle )
          => /\ response'.op = "recordSwipe" /\ response'.status = 200
             /\ response'.isMatch
             /\ matches' = matches \cup
                    {[id |-> response'.matchId,
                      user1Id |-> Min2(q.userId, q.targetUserId),
                      user2Id |-> Max2(q.userId, q.targetUserId)]}
             /\ Cardinality(matches') = Cardinality(matches) + 1
             /\ chatRooms' = chatRooms \cup
                    {[id |-> response'.chatRoomId, matchId |-> response'.matchId]}
             /\ Cardinality(chatRooms') = Cardinality(chatRooms) + 1 ]_vars

\* user 2 liked user 1 first; the like of user 1 answered with the new match
C9_Witness ==
    /\ response.op = "recordSwipe" /\ response.userId = 2
    /\ response.targetUserId = 1 /\ response.isMatch
    /\ [id |-> response.matchId, user1Id |-> 1, user2Id |-> 2] \in matches
    /\ [id |-> response.chatRoomId, matchId |-> response.matchId] \in chatRooms

\* C10, the claim as the specification states it: once a Match exists for A
\* and B, a further like by either of them on the other returns the existing
\* match (isMatch=true with its id) and creates no Match or ConversationRoom.
C10_ThirdLikeReturnsMatch ==
    [][ \A r \in Reqs, u \in Actors, t \in Actors :
          ( /\ u # t
            /\ MatchesOfPair(u, t) # {}
            /\ RecordSwipe_Begin(r, u, t, "like")
            /\ req'[r] = Idle )
          => /\ response'.isMatch
             /\ response'.matchId \in {m.id : m \in MatchesOfPair(u, t)}
             /\ UNCHANGED <<matches, chatRooms>> ]_vars

\* C10 as amended: once a Match exists for A and B (and no unmatch or report
\* removes it), a like by either on the other creates no Match or
\* ConversationRoom row; while the Swipe row of the attempt exists the attempt
\* is refused with the duplicate-swipe error (400, no match id), and a like
\* that is answered isMatch=true carries the id of the existing Match.
C10_ThirdLikeIsNoOp ==
    [][ /\ \A a \in Actors, b \in Actors :
              MatchesOfPair(a, b) # {}
              => /\ MatchesOfPair(a, b)' = MatchesOfPair(a, b)
                 /\ \A m \in MatchesOfPair(a, b) :
                        RoomOfMatch(m.id)' = RoomOfMatch(m.id)
        /\ \A r \in Reqs, u \in Actors, t \in Actors :
              ( /\ u # t /\ MatchesOfPair(u, t) # {}
                /\ SwipeRows(u, t) # {}
                /\ RecordSwipe_Begin(r, u, t, "like") )
              => /\ req'[r] = Idle
                 /\ response'.status = 400 /\ ~response'.isMatch
                 /\ response'.matchId = NoId
        /\ \A r \in Reqs :
              ( /\ req[r].op = "recordSwipe" /\ req'[r] = Idle
                /\ MatchesOfPair(req[r].userId, req[r].targetUserId) # {}
                /\ response'.isMatch )
              => response'.matchId \in
                    {m.id : m \in MatchesOfPair(req[r].userId, req[r].targetUserId)}
      ]_vars

\* the match exists and a further like was refused as a duplicate
C10_Witness ==
    /\ response.op = "recordSwipe" /\ response.direction = "like"
    /\ response.userId # response.targetUserId
    /\ response.status = 400 /\ response.matchId = NoId
    /\ MatchesOfPair(response.userId, response.targetUserId) # {}
    /\ SwipeRows(response.userId, response.targetUserId) # {}

\* C11: when two mutually-liking recordSwipe requests race and both attempt
\* to insert the Match, the request whose insert is refused by the unique
\* index on (user1Id, user2Id) is answered 200 with isMatch=true and the id
\* of the Match the other request created, not with an error.
C11_RaceLoserReturnsMatch ==
    [][ \A r \in Reqs :
          LET q == req[r] IN
          ( /\ q.op = "recordSwipe" /\ q.pc = "createMatch"
            /\ \E m \in matches : /\ m.user1Id = Min2(q.userId, q.targetUserId)
                                  /\ m.user2Id = Max2(q.userId, q.targetUserId)
            /\ req'[r] # q )
          => /\ req'[r] = Idle
             /\ response'.status = 200
             /\ response'.isMatch
             /\ response'.matchId \in
                    {m.id : m \in MatchesOfPair(q.userId, q.targetUserId)} ]_vars

\* C12: in every reachable state, also after a match creation that failed,
\* every Match row has exactly one ChatRoom row and every ChatRoom row
\* belongs to an existing Match.
C12_MatchAndRoomTogether ==
    /\ \A m \in matches : Cardinality({c \in chatRooms : c.matchId = m.id}) = 1
    /\ \A c \in chatRooms : \E m \in matches : m.id = c.matchId

\* the insert of the second of two racing requests was refused; the match of
\* the first is there with its room
C12_Witness ==
    /\ response.op = "recordSwipe" /\ response.status = 500
    /\ response.direction = "like"
    /\ \E m \in MatchesOfPair(response.userId, response.targetUserId) :
           \E c \in chatRooms : c.matchId = m.id
    /\ nextId["match"] = 2 /\ nextId["room"] = 2

\* C13: a Match row is added only by the match.create of a like request, and
\* a request reaches it only when its query found a like Swipe from the
\* target to the swiper; a like whose query finds none (the target passed or
\* has not swiped) is answered isMatch=false; a pass is answered isMatch=false
\* and adds no Match, whether or not the target has liked the swiper.
C13_MatchOnlyOnMutualLike ==
    [][ /\ matches' # matches
           => \E r \in Reqs : /\ req[r].op = "recordSwipe"
                              /\ req[r].direction = "like"
                              /\ req[r].pc = "createMatch"
                              /\ req'[r] = Idle
                              /\ response'.isMatch
        /\ \A r \in Reqs :
              LET q == req[r] IN
              (q.op = "recordSwipe" /\ q.pc = "findMutual" /\ req'[r] # q)
              => IF \E s \in BagToSet(swipes) : /\ s.swiperId = q.targetUserId
                                                /\ s.swipedId = q.userId
                                                /\ s.direction = "like"
                 THEN req'[r] = [q EXCEPT !.pc = "findMatch"]
                 ELSE /\ req'[r] = Idle
                      /\ response'.status = 200 /\ ~response'.isMatch
                      /\ matches' = matches
        /\ \A r \in Reqs :
              LET q == req[r] IN
              (q.op = "recordSwipe" /\ q.direction = "pass" /\ req'[r] # q)
              => /\ req'[r] = Idle
                 /\ response'.op = "recordSwipe" /\ ~response'.isMatch
                 /\ matches' = matches ]_vars

\* user 2 liked user 1 and user 1 passed on user 2, and user 2's like on a
\* user who passed was answered without a match: no Match row was made
C13_Witness ==
    /\ LikeExists(2, 1)
    /\ \E s \in BagToSet(swipes) :
           s.swiperId = 1 /\ s.swipedId = 2 /\ s.direction = "pass"
    /\ response.op = "recordSwipe" /\ response.status = 200
    /\ ~response.isMatch
    /\ matches = {}

\* C14: a like request that failed after its Swipe row was written and
\* before match resolution does not lose the match: whenever a later like
\* attempt between the two users is answered (other than by that failure)
\* and both like rows exist, the Match of the pair exists.
C14_MatchNotLost ==
    [][ \A u \in Actors, t \in Actors :
          ( /\ u # t
            /\ response'.op = "recordSwipe"
            /\ response'.direction = "like"
            /\ response'.userId = u /\ response'.targetUserId = t
            /\ ~\E r \in Reqs : RecordSwipe_FindMutualFails(r)
            /\ LikeExists(u, t)' /\ LikeExists(t, u)' )
          => MatchesOfPair(u, t)' # {} ]_vars

(* Properties of the report cleanup *)

CandidateLists(u) == Pages(u, SwipedIds(u), BlockedUserIds(u))

NoOrphans ==
    /\ \A c \in chatRooms : MatchById(c.matchId) # {}
    /\ \A h \in hostSessions : \E c \in chatRooms : c.id = h.chatRoomId

\* C7: after submitReport(A, B) completes, no other request being in flight,
\* no Match, ConversationRoom, HostSession or Swipe row (in either direction)
\* of the pair remains, B is not in A's candidate list and A is not in B's.
C7_ReportCascade ==
    [][ \A r \in Reqs, a \in Actors, b \in Users :
          ( /\ req[r].op = "submitReport" /\ req'[r] = Idle
            /\ req[r].userId = a /\ req[r].targetId = b
            /\ response'.status = 200 )
          => /\ MatchesOfPair(a, b)' = {}
             /\ NoOrphans'
             /\ SwipeRows(a, b)' = {} /\ SwipeRows(b, a)' = {}
             /\ \A p \in CandidateLists(a)' : b \notin p
             /\ \A p \in CandidateLists(b)' : a \notin p ]_vars

\* a report was answered; the one match ever made, and its session, are gone;
\* swipes on a third user are still there
C7_Witness ==
    /\ response.op = "submitReport" /\ response.status = 200
    /\ nextId["match"] = 2 /\ nextId["session"] = 2
    /\ matches = {} /\ chatRooms = {} /\ hostSessions = {}
    /\ BagCardinality(reports) = 1
    /\ SwipeRows(1, 3) # {}

----------------------------------------------------------------------------
(* Properties of the host session *)

\* C5: in every reachable state, also when one participant's opt-out
\* interleaves with the other's opt-in, a host session whose status is active
\* has user1OptIn and user2OptIn both true.
C5_ActiveHasBothOptIns ==
    \A h \in hostSessions :
        h.status = "active" => (h.user1OptIn /\ h.user2OptIn)

Stage1Prompt(sid) == HostMsg(sid, "question", "STAGE_1", "ice_breaker")

\* exitHost requests that have written `exited` and not yet the exit message
ExitsUnderWay(sid) ==
    Cardinality({r \in Reqs : /\ req[r].op = "exit" /\ req[r].pc = "farewell"
                              /\ req[r].sessionId = sid})

\* C6: for each pending period of a host session the STAGE_1 ice-breaker is
\* appended once, whatever the interleaving of opt-in requests (retries by
\* the same participant included).  A session is pending from its creation
\* and again after each exit, so its log never holds more STAGE_1 prompts
\* than one plus the number of exits.
C6_OnePromptPerPendingPeriod ==
    \A h \in hostSessions :
        CopiesIn(Stage1Prompt(h.id), hostMessages)
            <= 1 + CopiesIn(Farewell(h.id), hostMessages) + ExitsUnderWay(h.id)

AnswerGatedStages ==
    {"STAGE_1", "STAGE_2", "STAGE_3", "STAGE_4", "STAGE_4B", "STAGE_4C"}

\* every answer of the round is u's
OnlyAnswersOf(h, u) ==
    \A k \in DOMAIN h.stageData.answers : h.stageData.answers[k].userId = u

\* C4: in an answer-gated stage, as long as only one participant has
\* submitted answers in the current round (any number of them, with any
\* questionId or none), a step of that participant's submitHostAnswer leaves
\* currentStage and the round counter as they are and removes no answer.
C4_OneSidedNeverAdvances ==
    [][ \A h \in hostSessions, u \in Actors, r \in Reqs :
          ( /\ h.status = "active" /\ h.currentStage \in AnswerGatedStages
            /\ OnlyAnswersOf(h, u)
            /\ req[r].op = "submitAnswer" /\ req[r].userId = u
            /\ req[r].sessionId = h.id /\ req'[r] # req[r] )
          => \E h2 \in hostSessions' :
                 /\ h2.id = h.id
                 /\ h2.currentStage = h.currentStage
                 /\ h2.stageData.gameRounds = h.stageData.gameRounds
                 /\ \A k \in DOMAIN h.stageData.answers :
                        k \in DOMAIN h2.stageData.answers ]_vars

\* C8: the update of an opt-in that read the session as exited keeps the row
\* (same id, no row added) and leaves it pending at STAGE_0 with stageData
\* null and the opt-in flag true for the re-opting participant only; the
\* request does not go on to start the session.
C8_ReentryResets ==
    [][ \A r \in Reqs :
          ( /\ req[r].op = "optIn" /\ req[r].pc = "update"
            /\ req[r].readStatus = "exited"
            /\ OptInToHost_Update(r)
            /\ SessionById(req[r].sessionId) # {} )
          => /\ {h.id : h \in hostSessions'} = {h.id : h \in hostSessions}
             /\ Cardinality(hostSessions') = Cardinality(hostSessions)
             /\ \E h \in hostSessions' :
                    /\ h.id = req[r].sessionId
                    /\ h.status = "pending" /\ h.currentStage = "STAGE_0"
                    /\ h.stageData = NullData
                    /\ h.user1OptIn = req[r].isUser1
                    /\ h.user2OptIn = ~req[r].isUser1
             /\ req'[r].pc = "respond" ]_vars

\* a session that was started, answered in and left is being re-entered by
\* user 2: the request has written its update
C8_Witness ==
    \E r \in Reqs, h \in hostSessions :
        /\ req[r].op = "optIn" /\ req[r].pc = "respond"
        /\ req[r].readStatus = "exited" /\ req[r].userId = 2
        /\ h.id = req[r].sessionId
        /\ h.status = "pending" /\ h.user2OptIn /\ ~h.user1OptIn
        /\ CopiesIn(Farewell(h.id), hostMessages) = 1
        /\ CopiesIn(UserMsg(h.id, "user1"), hostMessages) >= 1

\* C15: once each of the two participants has completed an opt-in request,
\* both requests having found the session pending (and never left) or both
\* having found it exited, both opt-in flags are true and the session is
\* active at STAGE_1, whatever the interleaving of the two requests.
C15_BothOptInsActivate ==
    \A r1 \in Reqs, r2 \in Reqs, h \in hostSessions :
        ( /\ req[r1].op = "optIn" /\ req[r1].pc = "respond"
          /\ req[r2].op = "optIn" /\ req[r2].pc = "respond"
          /\ req[r1].isUser1 /\ ~req[r2].isUser1
          /\ req[r1].sessionId = h.id /\ req[r2].sessionId = h.id
          /\ \/ /\ req[r1].readStatus = "pending"
                /\ req[r2].readStatus = "pending"
                /\ CopiesIn(Farewell(h.id), hostMessages) = 0
                /\ ExitsUnderWay(h.id) = 0
             \/ /\ req[r1].readStatus = "exited"
                /\ req[r2].readStatus = "exited" )
        => /\ h.user1OptIn /\ h.user2OptIn
           /\ h.status = "active" /\ h.currentStage = "STAGE_1"

\* C16: an opt-out on a pending session sets its status to declined and
\* clears the flag of the participant who opted out; a declined session stays
\* declined whatever requests follow, opt-ins of either participant included.
C16_DeclineIsFinal ==
    [][ /\ \A r \in Reqs, h \in hostSessions :
              ( /\ req[r].op = "optOut" /\ req[r].pc = "update"
                /\ req'[r] # req[r]
                /\ h.id = req[r].sessionId /\ h.status = "pending" )
              => \E h2 \in hostSessions' :
                     /\ h2.id = h.id /\ h2.status = "declined"
                     /\ IF req[r].isUser1 THEN ~h2.user1OptIn
                        ELSE ~h2.user2OptIn
        /\ \A h \in hostSessions :
              h.status = "declined"
              => \E h2 \in hostSessions' :
                     h2.id = h.id /\ h2.status = "declined" ]_vars

\* both participants have opted in after the decline, and the session is
\* still declined
C16_Witness ==
    /\ response.op = "optIn" /\ response.status = 200
    /\ \E h \in hostSessions :
           h.status = "declined" /\ h.user1OptIn /\ h.user2OptIn

\* C17: a session becomes declined only from pending; an opt-out leaves the
\* status of an active, completed or exited session as it is.
C17_DeclinedOnlyFromPending ==
    [][ \A h \in hostSessions, h2 \in hostSessions' :
          (h2.id = h.id /\ h2.status = "declined" /\ h.status # "declined")
          => h.status = "pending" ]_vars

C19_ExitOnlyFromActive ==
    [][ /\ \A r \in Reqs, u \in Actors, mid \in Ids :
              ( /\ req[r] = Idle
                /\ "exit" \in {req'[r].op, response'.op}
                /\ \A h \in SessionOfMatch(mid) : h.status # "active"
                /\ ExitHost_Begin(r, u, mid) )
              => /\ req'[r] = Idle
                 /\ response'.op = "exit" /\ response'.status >= 400
                 /\ hostMessages' = hostMessages
                 /\ hostSessions' = hostSessions
        /\ \A r \in Reqs, h \in hostSessions :
              ( /\ req[r].op = "exit" /\ req[r].pc = "update"
                /\ req'[r] # req[r] /\ h.id = req[r].sessionId )
              => /\ h.status = "active"
                 /\ hostSessions' = (hostSessions \ {h}) \cup
                        {[h EXCEPT !.status = "exited",
                                   !.currentStage = "STAGE_6"]}
                 /\ hostMessages' = hostMessages
                 /\ req'[r] = [req[r] EXCEPT !.pc = "farewell"]
        /\ \A r \in Reqs, h \in hostSessions :
              ( /\ req[r].op = "exit" /\ req[r].pc = "farewell"
                /\ req'[r] # req[r] /\ h.id = req[r].sessionId )
              => /\ h.status = "exited" /\ h.currentStage = "STAGE_6"
                 /\ hostSessions' = hostSessions
                 /\ BagCardinality(hostMessages')
                        = BagCardinality(hostMessages) + 1
                 /\ CopiesIn(HostMsg(h.id, "text", "STAGE_6", "exit"),
                             hostMessages')
                        = CopiesIn(HostMsg(h.id, "text", "STAGE_6", "exit"),
                                   hostMessages) + 1
                 /\ req'[r] = Idle
                 /\ response'.op = "exit" /\ response'.status = 200
        /\ (response'.op = "exit" /\ response'.status = 200)
              => \E r \in Reqs : req[r].op = "exit" /\ req[r].pc = "farewell"
      ]_vars

\* a session in its second stage was left: the exit was answered 200
C19_Witness ==
    /\ response.op = "exit" /\ response.status = 200
    /\ \E h \in hostSessions :
           /\ h.status = "exited" /\ h.currentStage = "STAGE_6"
           /\ CopiesIn(Farewell(h.id), hostMessages) = 1
           /\ CopiesIn(HostMsg(h.id, "game_prompt", "STAGE_2", "this_or_that"),
                       hostMessages) = 1

\* C20: once an exit has completed, the session keeps status exited and
\* currentStage STAGE_6 until the update of an opt-in request, also when a
\* stage advance that was under way before the exit takes its steps
\* afterwards.
C20_ExitIsTerminal ==
    [][ \A h \in hostSessions :
          ( /\ h.status = "exited" /\ h.currentStage = "STAGE_6"
            /\ ExitsUnderWay(h.id) = 0
            /\ ~\E r \in Reqs : OptInToHost_Update(r) )
          => \E h2 \in hostSessions' :
                 /\ h2.id = h.id
                 /\ h2.status = "exited" /\ h2.currentStage = "STAGE_6" ]_vars


----------------------------------------------------------------------------
(* Properties of the session row and of the message log *)

SessionIds(S) == {h.id : h \in S}

\* C29: under concurrent first-time getHostSession and opt-in requests (and
\* opt-outs and exits) a chat room never has two sessions; a session row
\* appears only when its room had none, as status pending, STAGE_0, both
\* flags false and stageData null; and no step removes a session row or
\* gives it another id, room or match
C29_OneSessionPerRoom ==
    [][ /\ \A h1, h2 \in hostSessions' :
               h1.chatRoomId = h2.chatRoomId => h1 = h2
        /\ \A h \in hostSessions' :
               h.id \notin SessionIds(hostSessions) =>
                   /\ SessionOfRoom(h.chatRoomId) = {}
                   /\ h = NewSession(h.id, h.chatRoomId, h.matchId)
        /\ \A h \in hostSessions :
               \E h2 \in hostSessions' :
                   /\ h2.id = h.id
                   /\ h2.chatRoomId = h.chatRoomId
                   /\ h2.matchId = h.matchId ]_vars

\* a first-time request finds the session created by a concurrent one and
\* is refused by the unique index
C29_Witness ==
    /\ Cardinality(hostSessions) = 1
    /\ response.op \in {"getHostSession", "optIn"}
    /\ response.status = 500
    /\ \E r \in Reqs : req[r].op \in {"getHostSession", "optIn"}


\* C30: while the match exists no step of a host operation (opt-in, also as
\* re-entry after an exit, opt-out, answer, exit, stage advance, deferred
\* callback) removes or changes a ChatHostMessage row: the log after the
\* step holds every row of the log before it, as many times
C30_LogAppendOnly ==
    [][ matches \subseteq matches' => hostMessages \sqsubseteq hostMessages' ]_vars

\* a log that has been through an exit and a re-entry and holds answers
C30_Witness ==
    /\ \E h \in hostSessions :
           /\ h.status = "active"
           /\ CopiesIn(Farewell(h.id), hostMessages) = 1
           /\ CopiesIn(HostMsg(h.id, "question", "STAGE_1", "ice_breaker"),
                       hostMessages) = 2
           /\ \E u \in {"user1", "user2"} :
                  CopiesIn(UserMsg(h.id, u), hostMessages) >= 2
    /\ BagCardinality(hostMessages) >= 6


----------------------------------------------------------------------------
(* Properties of submitHostAnswer *)

\* the step of request r that writes its answer into stageData
AnswerWritten(r) ==
    /\ req[r].op = "submitAnswer" /\ req[r].pc = "updateData"
    /\ req'[r] # Idle
    /\ req'[r].pc = "processNext"

\* C26: an accepted answer is written twice, as a row of the log and as an
\* entry of stageData.answers of its participant, and the entry of the other
\* participant stays, so that after one answer of each both have an entry,
\* whichever questionId the two requests carried
C26_BothParticipantsRecorded ==
    [][ \A r \in Reqs :
            AnswerWritten(r) =>
                LET q == req[r]
                    before == TheSession(q.sessionId).stageData
                    after == (CHOOSE h \in hostSessions' : h.id = q.sessionId).stageData
                IN /\ CopiesIn(UserMsg(q.sessionId, q.sender), hostMessages) >= 1
                   /\ AnswersOf(after, q.userId) >= 1
                   /\ \A u \in Actors :
                          AnswersOf(before, u) >= 1 => AnswersOf(after, u) >= 1
      ]_vars


\* C25: when the two participants answer the same round concurrently, the
\* write of one answer keeps the entry the other request has written (under
\* another key), so that both are in stageData when the advance condition
\* is evaluated
C25_ConcurrentAnswersBothKept ==
    [][ \A r \in Reqs :
            AnswerWritten(r) =>
                LET q == req[r]
                    before == TheSession(q.sessionId).stageData.answers
                    after == (CHOOSE h \in hostSessions' :
                                  h.id = q.sessionId).stageData.answers
                IN \A k \in DOMAIN before :
                       k # AnswerKey(q.questionId, now) =>
                           k \in DOMAIN after /\ after[k] = before[k]
      ]_vars


----------------------------------------------------------------------------
(* Properties of the stage machine *)

\* the prompt of the round of the stage has been sent: the opening prompt
\* for round 0, the n-th follow-up question for round n
PromptEmitted(sid, stage, round) ==
    IF round = 0
    THEN \E mtype \in {"game_prompt", "question"} :
             CopiesIn(HostMsg(sid, mtype, stage, OpeningPrompt(stage)),
                      hostMessages) >= 1
    ELSE CopiesIn(HostMsg(sid, "game_prompt", stage, "next_question"),
                  hostMessages) >= round

\* the step removes an entry of stageData.answers
AnswersErased(old, new) == ~(DOMAIN old.answers \subseteq DOMAIN new.answers)

\* C28: every write of a round or stage transition (currentStage, the round
\* counter, the clearing of stageData.answers) happens before the prompt of
\* the new round or stage is sent, so that no answer to that prompt can be
\* erased by the cleanup of the round before
C28_StateBeforePrompt ==
    [][ \A h \in hostSessions :
            (h.status = "active" /\ CopiesIn(Farewell(h.id), hostMessages) = 0) =>
                \A h2 \in hostSessions' :
                    ( /\ h2.id = h.id
                      /\ \/ h2.currentStage # h.currentStage
                         \/ h2.stageData.gameRounds # h.stageData.gameRounds
                         \/ AnswersErased(h.stageData, h2.stageData) )
                    => ~PromptEmitted(h.id, h2.currentStage,
                                      h2.stageData.gameRounds)
      ]_vars


\* C21: while a session is active its currentStage changes only from a
\* stage to the next one of STAGE_1, STAGE_2, STAGE_3, STAGE_4, STAGE_4B,
\* STAGE_4C, STAGE_4D, STAGE_5, whatever answers are sent and whenever the
\* deferred callbacks run: no stage is skipped, none is entered again
C21_StagesInOrder ==
    [][ LET order == <<"STAGE_1", "STAGE_2", "STAGE_3", "STAGE_4", "STAGE_4B",
                       "STAGE_4C", "STAGE_4D", "STAGE_5">>
        IN \A h \in hostSessions :
               \A h2 \in hostSessions' :
                   ( /\ h2.id = h.id
                     /\ h.status = "active"
                     /\ h2.currentStage # h.currentStage )
                   => \E i \in 1 .. 7 : /\ order[i] = h.currentStage
                                        /\ order[i + 1] = h2.currentStage
      ]_vars


C23_OnlyTimerLeavesTwoTruths ==
    [][ \A h \in hostSessions :
            \A h2 \in hostSessions' :
                ( /\ h2.id = h.id
                  /\ h.status = "active"
                  /\ h.currentStage = "STAGE_4D"
                  /\ (h2.currentStage # h.currentStage \/ h2.status # h.status) )
                => /\ req' = req
                   /\ h2.currentStage = "STAGE_5"
                   /\ h2.status = "completed"
                   /\ \E t \in BagToSet(timers) :
                          /\ t = [kind |-> "move", sessionId |-> h.id,
                                  stage |-> "STAGE_5"]
                          /\ timers' = (timers (-) One(t)) (+)
                                           One([t EXCEPT !.kind = "movePrompt"])
      ]_vars

\* the timers are gone and both participants have answered since: the
\* session is still active in STAGE_4D
C23_Witness ==
    /\ timers = EmptyBag
    /\ \A r \in Reqs : req[r] = Idle
    /\ \A h \in hostSessions :
           /\ h.status = "active"
           /\ h.currentStage = "STAGE_4D"
           /\ \A u \in Actors : AnswersOf(h.stageData, u) >= 1

HandedOff(h) ==
    /\ h.status = "completed"
    /\ h.currentStage = "STAGE_5"
    /\ BagIn(MoveRow(h.id, "STAGE_5"), hostMessages)

\* C24: while the process keeps running, an active session in STAGE_4D is
\* eventually completed, at STAGE_5, with the handoff message in the log
C24_TwoTruthsHandsOff ==
    (\E h \in hostSessions : h.status = "active" /\ h.currentStage = "STAGE_4D")
    ~> (\A h \in hostSessions : HandedOff(h))

\* the handoff is reached with no answer given in STAGE_4D
C24_Witness ==
    /\ \A h \in hostSessions : HandedOff(h) /\ AnswerCount(h.stageData) = 0
    /\ timers = EmptyBag


\* an answer in flight that was sent with the questionId of a round the
\* session had left when the answer arrived
IsStale(q) ==
    /\ q.op = "submitAnswer"
    /\ q.readStage = "STAGE_2"
    /\ q.questionId # NoId
    /\ q.questionId < PromptId(q.readData.gameRounds)

\* C27: a stale answer is answered 200 and logged, and no step of its
\* handling changes the stage or the round counter of the session
C27_StaleAnswerInert ==
    [][ \A r \in Reqs :
            IF req[r] = Idle THEN TRUE
            ELSE (IsStale(req[r]) /\ req'[r] # req[r])
                 => /\ \A h \in hostSessions :
                           \A h2 \in hostSessions' :
                               h2.id = h.id
                               => /\ h2.currentStage = h.currentStage
                                  /\ h2.stageData.gameRounds = h.stageData.gameRounds
                    /\ req[r].pc = "saveAnswer"
                       => hostMessages' = hostMessages (+)
                              One(UserMsg(req[r].sessionId, req[r].sender))
                    /\ req'[r] = Idle => response'.status = 200
      ]_vars


----------------------------------------------------------------------------
(* Properties of report, unmatch, reset and the candidate list *)

\* C31: once submitReport(a, b) has completed and while its Report row
\* exists, no step creates a Match between a and b
C31_NoRematchAfterReport ==
    [][ \A a \in Actors, b \in Users :
            ( /\ ReportRows(a, b) # {}
              /\ \A r \in Reqs : req[r] = Idle \/ req[r].op # "submitReport" )
            => MatchesOfPair(a, b)' \subseteq MatchesOfPair(a, b) ]_vars


\* C32: no step leaves two Report rows of the same reporter and target, and
\* a submitReport that found its Report inserts none, ends with 200 and
\* leaves no Match and no Swipe row between the pair
C32_ReportIdempotent ==
    [][ /\ \A x \in DOMAIN reports' : reports'[x] <= 1
        /\ \A r \in Reqs :
               IF req[r] = Idle \/ req'[r] = req[r] THEN TRUE
               ELSE IF req[r].op # "submitReport" THEN TRUE
               ELSE req[r].existingReport
                    => /\ reports' = reports
                       /\ req'[r] = Idle
                          => /\ response'.status = 200
                             /\ \A a \in {req[r].userId}, b \in {req[r].targetId} :
                                    /\ MatchesOfPair(a, b)' = {}
                                    /\ SwipeRows(a, b)' = {}
                                    /\ SwipeRows(b, a)' = {}
      ]_vars

\* a submitReport that found its Report has deleted the Match the pair had
\* made since and is about to delete their likes
C32_Witness ==
    \E r \in Reqs :
        /\ req[r] # Idle
        /\ req[r].op = "submitReport"
        /\ req[r].existingReport
        /\ req[r].pc = "deleteSwipes"
        /\ matches = {}
        /\ nextId["match"] > 1
        /\ SwipeRows(req[r].userId, req[r].targetId) # {}
        /\ SwipeRows(req[r].targetId, req[r].userId) # {}


\* C33: a cleanup that has deleted the Match of a pair does not end with
\* Swipe rows between the pair left behind
C33_CleanupAllOrNothing ==
    [][ \A r \in Reqs :
            IF req[r] = Idle \/ req'[r] # Idle THEN TRUE
            ELSE IF req[r].pc # "deleteSwipes" THEN TRUE
            ELSE IF req[r].op = "unmatchUser"
            THEN \A a \in {req[r].user1Id}, b \in {req[r].user2Id} :
                     SwipeRows(a, b)' = {} /\ SwipeRows(b, a)' = {}
            ELSE IF req[r].op = "submitReport"
            THEN \A a \in {req[r].userId}, b \in {req[r].targetId} :
                     req[r].matchesToDelete # {}
                     => SwipeRows(a, b)' = {} /\ SwipeRows(b, a)' = {}
            ELSE TRUE
      ]_vars


\* nothing of the matches mids is left, nor a Swipe row between a and b
CleanedUp(mids, a, b) ==
    /\ \A mid \in mids :
           /\ MatchById(mid) = {}
           /\ RoomOfMatch(mid) = {}
           /\ \A h \in hostSessions : h.matchId # mid
    /\ \A x \in DOMAIN hostMessages : SessionById(x.sessionId) # {}
    /\ SwipeRows(a, b) = {}
    /\ SwipeRows(b, a) = {}

\* C34: an unmatch or a report that has passed its checks ends with 200 and
\* with the Match, its room, host session and messages and the Swipe rows of
\* the pair removed, whatever the deletion of the media met
C34_MediaFailureDoesNotBlock ==
    [][ \A r \in Reqs :
            IF req[r] = Idle \/ req'[r] # Idle THEN TRUE
            ELSE IF req[r].op = "unmatchUser"
            THEN /\ response'.status = 200
                 /\ \A mid \in {req[r].matchId}, a \in {req[r].user1Id},
                       b \in {req[r].user2Id} : CleanedUp({mid}, a, b)'
            ELSE IF req[r].op = "submitReport"
            THEN /\ response'.status = 200
                 /\ \A mids \in {req[r].matchesToDelete}, a \in {req[r].userId},
                       b \in {req[r].targetId} : CleanedUp(mids, a, b)'
            ELSE TRUE
      ]_vars

\* the object store has refused the deletion and the unmatch has gone on to
\* delete the Match with its room and host session
C34_Witness ==
    \E r \in Reqs :
        /\ req[r] # Idle
        /\ req[r].op = "unmatchUser"
        /\ req[r].media = "failed"
        /\ req[r].pc = "deleteSwipes"
        /\ MatchById(req[r].matchId) = {}
        /\ chatRooms = {} /\ hostSessions = {}
        /\ nextId["session"] > 1


\* C35: an unmatch goes on only for a participant of the match and creates
\* no Report; when it ends with 200 nothing of the match and no Swipe row of
\* the pair is left, so that each may swipe on the other again; a request of
\* a user who is no participant is answered 403 and changes no table
C35_UnmatchCleansUp ==
    [][ /\ \A r \in Reqs :
               IF req'[r] = Idle THEN TRUE
               ELSE IF req'[r].op # "unmatchUser" THEN TRUE
               ELSE req'[r].userId \in {req'[r].user1Id, req'[r].user2Id}
        /\ \A r \in Reqs :
               IF req[r] = Idle \/ req'[r] = req[r] THEN TRUE
               ELSE IF req[r].op # "unmatchUser" THEN TRUE
               ELSE /\ reports' = reports
                    /\ IF req'[r] # Idle THEN TRUE
                       ELSE response'.status = 200
                            => \A mid \in {req[r].matchId}, a \in {req[r].user1Id},
                                  b \in {req[r].user2Id} :
                                   /\ CleanedUp({mid}, a, b)'
                                   /\ ~AlreadySwiped(a, b)'
                                   /\ ~AlreadySwiped(b, a)'
        /\ IF response'.op # "unmatchUser" THEN TRUE
           ELSE /\ response'.status = 403 => UNCHANGED dbVars
                /\ \A m \in MatchById(response'.matchId) :
                       response'.userId \notin {m.user1Id, m.user2Id}
                       => response'.status = 403
      ]_vars

\* the unmatch of a participant has ended: the match of users 2 and 3, its
\* room, its host session and their likes are gone, and no Report was made
C35_Witness ==
    /\ response.op = "unmatchUser"
    /\ response.status = 200
    /\ response.userId = 2
    /\ matches = {} /\ chatRooms = {} /\ hostSessions = {}
    /\ SwipeRows(2, 3) = {} /\ SwipeRows(3, 2) = {}
    /\ reports = EmptyBag


\* C36: resetSwipes(u) removes every Swipe row whose swiper is u and no
\* other, answers with the number of rows removed, leaves the Match and
\* ConversationRoom rows (and every other table) as they were, and leaves u
\* with no row that the duplicate check of recordSwipe would find
C36_ResetFrame ==
    [][ IF response'.op # "resetSwipes" THEN TRUE
        ELSE \A u \in {response'.userId} :
                 LET own == {x \in DOMAIN swipes : x.swiperId = u} IN
                 /\ response'.status = 200
                 /\ DOMAIN swipes' = DOMAIN swipes \ own
                 /\ \A x \in DOMAIN swipes' : swipes'[x] = swipes[x]
                 /\ response'.deletedCount = BagCardinality([x \in own |-> swipes[x]])
                 /\ UNCHANGED <<reports, matches, chatRooms, hostSessions, hostMessages>>
                 /\ \A t \in Users : ~AlreadySwiped(u, t)'
      ]_vars

\* a reset has removed a like of a matched user; the match and the like that
\* targets the user are still there
C36_Witness ==
    /\ response.op = "resetSwipes"
    /\ response.deletedCount >= 1
    /\ \E m \in matches :
           /\ response.userId \in {m.user1Id, m.user2Id}
           /\ \E t \in {m.user1Id, m.user2Id} \ {response.userId} :
                  SwipeRows(t, response.userId) # {}


\* C37: the page getSwipeProfiles(u) answers with has at most 20 profiles
\* and holds neither u, nor a user with a Swipe row between them and u in
\* either direction, nor a user of a Report together with u
C37_CandidatesExcluded ==
    [][ IF response'.op # "getSwipeProfiles" THEN TRUE
        ELSE \A u \in {response'.userId} :
                 /\ Cardinality(response'.profiles) <= PageSize
                 /\ \A p \in response'.profiles :
                        /\ p # u
                        /\ SwipeRows(u, p)' = {}
                        /\ SwipeRows(p, u)' = {}
                        /\ ReportRows(u, p)' = {}
                        /\ ReportRows(p, u)' = {}
      ]_vars


----------------------------------------------------------------------------
(* Properties of the host session across runs *)

\* C38: a pending session is at STAGE_0 with no stage data, and once a
\* session has been left and entered again (it is pending or active and its
\* farewell is in the log) no callback changes its row
C38_StaleTimersInert ==
    [][ /\ \A h \in hostSessions' :
               h.status = "pending"
               => h.currentStage = "STAGE_0" /\ h.stageData = NullData
        /\ \A h \in hostSessions :
               ( /\ req' = req
                 /\ h.status \in {"pending", "active"}
                 /\ BagIn(Farewell(h.id), hostMessages) )
               => h \in hostSessions'
      ]_vars


\* the keys an answer can be stored under
AnswerKeys == {AnswerKey(qid, t) : qid \in QuestionIds \cup {NoId}, t \in 0 .. MaxClock}

\* some sequence of at most n answers, handled one after the other, brings
\* the stage data to where the ice-breaker is complete
RECURSIVE CanComplete(_, _, _, _)
CanComplete(data, u1, u2, n) ==
    \/ Stage1Complete(data, u1, u2)
    \/ /\ n > 0
       /\ \E u \in {u1, u2}, key \in AnswerKeys, a \in Answers :
              CanComplete(WithAnswer(data, key, u, a), u1, u2, n - 1)

\* C39: while no answer is being handled, the stage data of an active
\* session in STAGE_1 can be completed by some sequence of further answers,
\* also after one participant has answered more than once
C39_Stage1NeverStuck ==
    \A h \in hostSessions :
        ( /\ h.status = "active"
          /\ h.currentStage = "STAGE_1"
          /\ \A r \in Reqs : req[r] = Idle )
        => \A m \in MatchById(h.matchId) :
               CanComplete(h.stageData, m.user1Id, m.user2Id, Cardinality(AnswerKeys))


\* C40: the prompt that opens STAGE_3, STAGE_4, STAGE_4B, STAGE_4C or
\* STAGE_4D and the handoff message are in the log of a session at most once
C40_StagePromptsOnce ==
    \A h \in hostSessions :
        \A stage \in {"STAGE_3", "STAGE_4", "STAGE_4B", "STAGE_4C", "STAGE_4D",
                      "STAGE_5"} :
            CopiesIn(MoveRow(h.id, stage), hostMessages) <= 1

====
